---- MODULE Spec2Model ----
(***************************************************************************)
(* Otter configuration centre: the in-memory store, the versioning and     *)
(* history handlers, the long-poll Watcher, user management and the token  *)
(* middleware, modelled from internal/server/server.go,                    *)
(* internal/store/memory.go and the auth file of package server.           *)
(*                                                                         *)
(* Time is the wall clock in whole seconds (time.Now().Unix()).  Durations *)
(* of the source (30 s long-poll timeout, 1 min usage window, 100 requests *)
(* per window) are scaled down to the bounds below so that every case is   *)
(* reached in a small state space.                                         *)
(*                                                                         *)
(* Spec runs every handler to completion before the next one starts; the   *)
(* only handler that spans several steps is the long-poll watch, which     *)
(* blocks between Subscribe and one of its three outcomes.                 *)
(***************************************************************************)
EXTENDS Integers, Sequences, FiniteSets, TLC

----------------------------------------------------------------------------
(* Bounds of the model *)

MaxTime == 2          \* the clock stops advancing here
MaxHist == 3          \* Spec: history records in all before mutations stop
MaxWatchOps == 4      \* WatchSpec: watch calls and mutations in all
WatchTimeout == 1     \* 30 * time.Second in the source, scaled
AuthMaxTime == 4      \* AuthSpec: the clock stops advancing here
RateLimit == 2        \* 100 requests per window in the source, scaled
Window == 2           \* 1 * time.Minute in the source, scaled
AccessTTL == 3        \* 2 * time.Hour in the source, scaled
RefreshTTL == 5       \* 7 * 24 * time.Hour in the source, scaled
LoginMaxTime == 6     \* LoginSpec: the clock stops advancing here
MaxPairs == 2         \* LoginSpec: token pairs issued before issuing stops
MaxProcs == 3         \* ConcSpec: calls of Subscribe and Notify in all

(* Request inputs *)
NsNames == {"public", "dev"}
GroupNames == {"g"}
KeyNames == {"k"}
ReqValues == {"", "x", "y"}       \* "" fails binding:"required"
ReqTypes == {"", "json", "toml"}  \* "toml" is not a valid type
ReqVersions == 0..MaxTime

VARIABLES
    now,          \* wall clock, seconds
    data,         \* InMemoryStore.data: full key -> Config
    history,      \* InMemoryStore.history: full key -> sequence of ConfigHistory
    namespaces,   \* InMemoryStore.namespaces
    subscribers,  \* Watcher.subscribers: full key -> sequence of channels
    watches,      \* the watch calls made so far, one channel each
    users,        \* InMemoryStore.users: username -> User
    tokenBlacklist, \* InMemoryStore.tokenBlacklist: token -> ExpiresAt
    tokenUsage,   \* tokenUsage: token -> TokenUsageRecord
    recent,       \* the requests of the access token admitted at now, now-1, ...
    issued,       \* the tokens login and refresh have handed out
    pg,           \* PostgresStore: the rows of otter.namespaces and otter.configs
    procs,        \* goroutines inside Watcher.Subscribe and Watcher.Notify
    resp          \* the request handled last and its response

storeVars == <<data, history, namespaces>>
watchVars == <<subscribers, watches>>
tokenVars == <<tokenBlacklist, tokenUsage, recent, issued>>
auxVars == <<pg, procs>>
vars == <<now, data, history, namespaces, subscribers, watches, users,
          tokenBlacklist, tokenUsage, recent, issued, pg, procs, resp>>

----------------------------------------------------------------------------
(* sync.Map *)

StoreAt(m, k, v) == (k :> v) @@ m
DeleteAt(m, k) == [x \in DOMAIN m \ {k} |-> m[x]]
LoadOr(m, k, dflt) == IF k \in DOMAIN m THEN m[k] ELSE dflt

(* a key that leaves the group out *)
FullKey_DropsGroup(namespace, group, key) == namespace \o "/" \o key

(* the map key of a config, of its history and of its subscriber list *)
FullKey(namespace, group, key) == namespace \o "/" \o group \o "/" \o key

ErrNotFound == [err |-> "config not found"]

----------------------------------------------------------------------------
(* InMemoryStore: configs and history *)

Get(d, namespace, group, key) ==
    LoadOr(d, FullKey(namespace, group, key), ErrNotFound)

(* Put sets the default type on the caller's config before storing it *)
PutDefaulted(config) ==
    IF config.Type = "" THEN [config EXCEPT !.Type = "text"] ELSE config

(* a Put that loses the version it was given *)
Put_DropsVersion(d, config) ==
    StoreAt(d, FullKey(config.Namespace, config.Group, config.Key),
            [PutDefaulted(config) EXCEPT !.Version = 0])

Put(d, config) ==
    StoreAt(d, FullKey(config.Namespace, config.Group, config.Key),
            PutDefaulted(config))

(* a Delete that removes by the bare key instead of the full key *)
Delete_BareKey(d, namespace, group, key) == DeleteAt(d, key)

Delete(d, namespace, group, key) ==
    DeleteAt(d, FullKey(namespace, group, key))

List(d, namespace, group) ==
    {d[x] : x \in {y \in DOMAIN d : /\ d[y].Namespace = namespace
                                    /\ d[y].Group = group}}

CreateHistory_Replaces(h, rec) ==
    LET key == FullKey(rec.Namespace, rec.Group, rec.Key)
    IN  StoreAt(h, key, <<rec>>)

CreateHistory(h, rec) ==
    LET key == FullKey(rec.Namespace, rec.Group, rec.Key)
    IN  StoreAt(h, key, Append(LoadOr(h, key, <<>>), rec))

ListHistory(h, namespace, group, key) ==
    LoadOr(h, FullKey(namespace, group, key), <<>>)

----------------------------------------------------------------------------
(* InMemoryStore: namespaces *)

CreateNamespaceErr(nss, namespace) ==
    IF namespace = "" THEN "namespace cannot be empty"
    ELSE IF namespace \in nss THEN "namespace already exists"
    ELSE "ok"

DeleteNamespaceErr_NoDefault(nss, d, namespace) ==
    IF namespace = "" THEN "namespace cannot be empty"
    ELSE IF \E x \in DOMAIN d : d[x].Namespace = namespace
         THEN "cannot delete namespace with existing configs"
    ELSE "ok"

DeleteNamespaceErr_NoConfigCheck(nss, d, namespace) ==
    IF namespace = "" THEN "namespace cannot be empty"
    ELSE IF namespace = "public" THEN "cannot delete default public namespace"
    ELSE "ok"

DeleteNamespaceErr(nss, d, namespace) ==
    IF namespace = "" THEN "namespace cannot be empty"
    ELSE IF namespace = "public" THEN "cannot delete default public namespace"
    ELSE IF \E x \in DOMAIN d : d[x].Namespace = namespace
         THEN "cannot delete namespace with existing configs"
    ELSE "ok"

----------------------------------------------------------------------------
(* Watcher *)

(* a Subscribe that replaces the key's list instead of appending to it *)
Subscribe_Replaces(subs, ch, namespace, group, key) ==
    StoreAt(subs, FullKey(namespace, group, key), <<ch>>)

(* Subscribe: a new channel of capacity 1 appended to the key's list *)
Subscribe(subs, ch, namespace, group, key) ==
    LET fullKey == FullKey(namespace, group, key)
    IN  StoreAt(subs, fullKey, Append(LoadOr(subs, fullKey, <<>>), ch))

Registered(subs, fullKey) ==
    {subs[fullKey][i] : i \in 1..Len(LoadOr(subs, fullKey, <<>>))}

(* the non-blocking send  select { case ch <- config: default: } *)
TrySend(buf, config) == IF Len(buf) < 1 THEN Append(buf, config) ELSE buf

(* Notify: the channels after the sends *)
NotifyChans(subs, ws, config) ==
    LET fullKey == FullKey(config.Namespace, config.Group, config.Key)
    IN  [c \in DOMAIN ws |->
            IF c \in Registered(subs, fullKey)
            THEN [ws[c] EXCEPT !.buf = TrySend(@, config)]
            ELSE ws[c]]

(* a Notify that keeps the registrations *)
NotifySubs_Keeps(subs, config) == subs

(* Notify: the subscriber table after the one-time trigger *)
NotifySubs(subs, config) ==
    DeleteAt(subs, FullKey(config.Namespace, config.Group, config.Key))

----------------------------------------------------------------------------
(* PostgresStore: otter.configs has no type column and references        *)
(* otter.namespaces(name) ON DELETE CASCADE; the token methods are stubs. *)
(* A store is p = [namespaces, configs]; an Err operator is "ok" or the   *)
(* error the statement returns.                                           *)

PgRow(config) ==
    [Namespace |-> config.Namespace, Group |-> config.Group,
     Key |-> config.Key, Value |-> config.Value, Type |-> "",
     Version |-> config.Version]

PgGet(p, namespace, group, key) ==
    LoadOr(p.configs, FullKey(namespace, group, key), ErrNotFound)

PgPutErr(p, config) ==
    IF config.Namespace \in p.namespaces THEN "ok"
    ELSE "violates foreign key constraint"

PgPut(p, config) ==
    IF PgPutErr(p, config) # "ok" THEN p
    ELSE [p EXCEPT !.configs =
             StoreAt(@, FullKey(config.Namespace, config.Group, config.Key),
                     PgRow(config))]

PgDelete(p, namespace, group, key) ==
    [p EXCEPT !.configs = DeleteAt(@, FullKey(namespace, group, key))]

PgList(p, namespace, group) ==
    {p.configs[x] : x \in {y \in DOMAIN p.configs :
                              /\ p.configs[y].Namespace = namespace
                              /\ p.configs[y].Group = group}}

PgCreateNamespaceErr(p, namespace) ==
    IF namespace \in p.namespaces THEN "duplicate key value" ELSE "ok"

PgCreateNamespace(p, namespace) ==
    IF PgCreateNamespaceErr(p, namespace) # "ok" THEN p
    ELSE [p EXCEPT !.namespaces = @ \cup {namespace}]

PgDeleteNamespaceErr(p, namespace) ==
    IF namespace = "public" THEN "cannot delete default public namespace"
    ELSE "ok"

PgDeleteNamespace(p, namespace) ==
    IF PgDeleteNamespaceErr(p, namespace) # "ok" THEN p
    ELSE [namespaces |-> p.namespaces \ {namespace},
          configs |-> [x \in {y \in DOMAIN p.configs :
                                 p.configs[y].Namespace # namespace} |->
                          p.configs[x]]]

PgIsTokenBlacklisted(token) == FALSE
PgCheckTokenRateLimit(token, limit) == TRUE

----------------------------------------------------------------------------
(* State after NewInMemoryStore and NewServer *)

InitStore ==
    /\ data = <<>>
    /\ history = <<>>
    /\ namespaces = {"public"}

(* NewPostgresStore: the tables are created and 'public' is inserted *)
InitPg == [namespaces |-> {"public"}, configs |-> <<>>]

(* no goroutine is inside the Watcher *)
InitProcs == <<>>

(* util.MD5Encrypt: the digest of a password *)
MD5Encrypt(password) == "md5:" \o password

CheckPassword(providedPassword, hashedPassword) ==
    MD5Encrypt(providedPassword) = hashedPassword

IsAdmin(us, u) == us[u].Role = "admin"

(* initAdminUser: the default admin is created when no admin exists *)
initAdminUser(us) ==
    IF (\E u \in DOMAIN us : IsAdmin(us, u)) \/ "admin" \in DOMAIN us
    THEN us
    ELSE StoreAt(us, "admin",
                 [Username |-> "admin", Password |-> MD5Encrypt("admin"),
                  Role |-> "admin", Status |-> "active"])

(* generateTokens: the access and the refresh token issued at time t *)
generateTokens(username, t) ==
    [access |-> [Username |-> username, TokenType |-> "access",
                 ExpiresAt |-> t + AccessTTL, Sig |-> "ok"],
     refresh |-> [Username |-> username, TokenType |-> "refresh",
                  ExpiresAt |-> t + RefreshTTL, Sig |-> "ok"]]

(* the tokens presented to the middleware: the pair issued to admin at     *)
(* server start and a copy of the access token signed with another secret  *)
IssuedTokens == generateTokens("admin", 1)
ForgedToken == [IssuedTokens.access EXCEPT !.Sig = "forged"]
AuthTokens == {IssuedTokens.access, IssuedTokens.refresh, ForgedToken}

Init ==
    /\ now = 1
    /\ InitStore
    /\ subscribers = <<>>
    /\ watches = <<>>
    /\ users = initAdminUser(<<>>)
    /\ tokenBlacklist = <<>>
    /\ tokenUsage = <<>>
    /\ recent = [i \in 1..Window |-> 0]
    /\ issued = {}
    /\ pg = InitPg
    /\ procs = InitProcs
    /\ resp = [op |-> "start", status |-> 0]

Tick(max) ==
    /\ now < max
    /\ now' = now + 1
    /\ recent' = [i \in 1..Window |-> IF i = 1 THEN 0 ELSE recent[i - 1]]
    /\ resp' = [op |-> "tick", status |-> 0]
    /\ UNCHANGED <<auxVars, storeVars, watchVars, users, tokenBlacklist, tokenUsage,
                   issued>>

----------------------------------------------------------------------------
(* Config handlers *)

validTypes == {"", "text", "properties", "json", "yaml", "yml", "xml"}

RECURSIVE SumLen(_, _)
SumLen(h, ks) ==
    IF ks = {} THEN 0
    ELSE LET k == CHOOSE x \in ks : TRUE
         IN  Len(h[k]) + SumLen(h, ks \ {k})

(* the model stops mutating once max history records exist *)
HistRoom(max) == SumLen(history, DOMAIN history) < max

(* WatchSpec counts the watch calls as well *)
WatchRoom == Len(watches) + SumLen(history, DOMAIN history) < MaxWatchOps

putConfigHandler(namespace, group, key, value, type) ==
    /\ IF value = "" \/ type \notin validTypes
       THEN /\ resp' = [op |-> "put", status |-> 400, ns |-> namespace,
                        group |-> group, key |-> key]
            /\ UNCHANGED <<now, auxVars, storeVars, watchVars, users, tokenVars>>
       ELSE LET configType == IF type = "" THEN "text" ELSE type
                config == PutDefaulted(
                            [Namespace |-> namespace, Group |-> group,
                             Key |-> key, Value |-> value, Type |-> configType,
                             Version |-> now])
                rec == [Namespace |-> namespace, Group |-> group, Key |-> key,
                        Value |-> value, Type |-> config.Type,
                        Version |-> config.Version, OpType |-> "UPDATE"]
            IN  /\ data' = Put(data, config)
                /\ history' = CreateHistory(history, rec)
                /\ watches' = NotifyChans(subscribers, watches, config)
                /\ subscribers' = NotifySubs(subscribers, config)
                /\ resp' = [op |-> "put", status |-> 201, ns |-> namespace,
                            group |-> group, key |-> key, body |-> config,
                            reqValue |-> value, reqType |-> type]
                /\ UNCHANGED <<now, auxVars, namespaces, users, tokenVars>>

(* putConfigHandler when s.store.CreateHistory returns an error, as the   *)
(* database-backed store's does when its INSERT fails: the handler drops  *)
(* the error, notifies and answers 201                                    *)
putConfigHandlerHistErr_Undoes(namespace, group, key, value, type) ==
    /\ value # "" /\ type \in validTypes
    /\ LET configType == IF type = "" THEN "text" ELSE type
           config == PutDefaulted(
                       [Namespace |-> namespace, Group |-> group,
                        Key |-> key, Value |-> value, Type |-> configType,
                        Version |-> now])
       IN  /\ watches' = NotifyChans(subscribers, watches, config)
           /\ subscribers' = NotifySubs(subscribers, config)
           /\ resp' = [op |-> "put", status |-> 201, ns |-> namespace,
                       group |-> group, key |-> key, body |-> config,
                       reqValue |-> value, reqType |-> type]
           /\ UNCHANGED <<now, auxVars, storeVars, users, tokenVars>>

putConfigHandlerHistErr(namespace, group, key, value, type) ==
    /\ value # "" /\ type \in validTypes
    /\ LET configType == IF type = "" THEN "text" ELSE type
           config == PutDefaulted(
                       [Namespace |-> namespace, Group |-> group,
                        Key |-> key, Value |-> value, Type |-> configType,
                        Version |-> now])
       IN  /\ data' = Put(data, config)
           /\ watches' = NotifyChans(subscribers, watches, config)
           /\ subscribers' = NotifySubs(subscribers, config)
           /\ resp' = [op |-> "put", status |-> 201, ns |-> namespace,
                       group |-> group, key |-> key, body |-> config,
                       reqValue |-> value, reqType |-> type]
           /\ UNCHANGED <<now, auxVars, history, namespaces, users, tokenVars>>

DeleteSentinel_Timestamped(namespace, group, key) ==
    [Namespace |-> namespace, Group |-> group, Key |-> key,
     Value |-> "", Type |-> "", Version |-> now]

(* the Config deleteConfigHandler hands to Notify *)
DeleteSentinel(namespace, group, key) ==
    [Namespace |-> namespace, Group |-> group, Key |-> key,
     Value |-> "", Type |-> "", Version |-> -1]

deleteConfigHandler(namespace, group, key) ==
    /\ LET rec == [Namespace |-> namespace, Group |-> group, Key |-> key,
                   Value |-> "", Type |-> "", Version |-> now,
                   OpType |-> "DELETE"]
           sentinel == DeleteSentinel(namespace, group, key)
       IN  /\ data' = Delete(data, namespace, group, key)
           /\ history' = CreateHistory(history, rec)
           /\ watches' = NotifyChans(subscribers, watches, sentinel)
           /\ subscribers' = NotifySubs(subscribers, sentinel)
           /\ resp' = [op |-> "delete", status |-> 204, ns |-> namespace,
                       group |-> group, key |-> key, body |-> sentinel]
           /\ UNCHANGED <<now, auxVars, namespaces, users, tokenVars>>

FindVersion_Latest(hs, version) ==
    IF hs = <<>> THEN 0 ELSE Len(hs)

(* the first history record of the key with the wanted version, 0 if none *)
FindVersion(hs, version) ==
    LET hits == {i \in 1..Len(hs) : hs[i].Version = version}
    IN  IF hits = {} THEN 0
        ELSE CHOOSE i \in hits : \A j \in hits : i <= j

rollbackConfigHandler(namespace, group, key, version) ==
    /\ LET histories == ListHistory(history, namespace, group, key)
           t == FindVersion(histories, version)
       IN  IF t = 0
           THEN /\ resp' = [op |-> "rollback", status |-> 404, ns |-> namespace,
                            group |-> group, key |-> key, version |-> version]
                /\ UNCHANGED <<now, auxVars, storeVars, watchVars, users, tokenVars>>
           ELSE LET target == histories[t]
                    config == PutDefaulted(
                                [Namespace |-> namespace, Group |-> group,
                                 Key |-> key, Value |-> target.Value,
                                 Type |-> target.Type, Version |-> now])
                    rec == [Namespace |-> namespace, Group |-> group,
                            Key |-> key, Value |-> target.Value,
                            Type |-> config.Type, Version |-> config.Version,
                            OpType |-> "ROLLBACK"]
                IN  /\ data' = Put(data, config)
                    /\ history' = CreateHistory(history, rec)
                    /\ watches' = NotifyChans(subscribers, watches, config)
                    /\ subscribers' = NotifySubs(subscribers, config)
                    /\ resp' = [op |-> "rollback", status |-> 200,
                                ns |-> namespace, group |-> group, key |-> key,
                                version |-> version, target |-> target,
                                body |-> config]
                    /\ UNCHANGED <<now, auxVars, namespaces, users, tokenVars>>

getConfigHandler(namespace, group, key) ==
    /\ LET config == Get(data, namespace, group, key)
       IN  resp' = IF config = ErrNotFound
                   THEN [op |-> "get", status |-> 404, ns |-> namespace,
                         group |-> group, key |-> key]
                   ELSE [op |-> "get", status |-> 200, ns |-> namespace,
                         group |-> group, key |-> key, body |-> config]
    /\ UNCHANGED <<now, auxVars, storeVars, watchVars, users, tokenVars>>

listHistoryHandler(namespace, group, key) ==
    /\ resp' = [op |-> "listHistory", status |-> 200, ns |-> namespace,
                group |-> group, key |-> key,
                body |-> ListHistory(history, namespace, group, key)]
    /\ UNCHANGED <<now, auxVars, storeVars, watchVars, users, tokenVars>>

listConfigsHandler(namespace, group) ==
    /\ resp' = [op |-> "list", status |-> 200, ns |-> namespace,
                group |-> group, body |-> List(data, namespace, group)]
    /\ UNCHANGED <<now, auxVars, storeVars, watchVars, users, tokenVars>>

----------------------------------------------------------------------------
(* Namespace handlers *)

createNamespaceHandler(name) ==
    /\ LET err == CreateNamespaceErr(namespaces, name)
       IN  /\ namespaces' = IF name # "" /\ err = "ok"
                            THEN namespaces \cup {name}
                            ELSE namespaces
           /\ resp' = [op |-> "createNamespace", ns |-> name,
                       status |-> IF name = "" THEN 400
                                  ELSE IF err = "ok" THEN 201 ELSE 500]
    /\ UNCHANGED <<now, auxVars, data, history, watchVars, users, tokenVars>>

deleteNamespaceHandler(namespace) ==
    /\ LET err == DeleteNamespaceErr(namespaces, data, namespace)
       IN  /\ namespaces' = IF err = "ok" THEN namespaces \ {namespace}
                            ELSE namespaces
           /\ resp' = [op |-> "deleteNamespace", ns |-> namespace,
                       status |-> IF err = "ok" THEN 204 ELSE 500]
    /\ UNCHANGED <<now, auxVars, data, history, watchVars, users, tokenVars>>

----------------------------------------------------------------------------
(* watchConfigHandler: Subscribe, then the select over the channel, the    *)
(* timer and the request context.  A goroutine parked in select is resumed *)
(* by the first case that becomes ready, so the timer and the cancellation *)
(* end a watch only while its channel is still empty.                      *)

watchSubscribe(namespace, group, key) ==
    /\ LET ch == Len(watches) + 1
       IN  /\ subscribers' = Subscribe(subscribers, ch, namespace, group, key)
           /\ watches' = Append(watches,
                  [ns |-> namespace, group |-> group, key |-> key,
                   buf |-> <<>>, deadline |-> now + WatchTimeout,
                   outcome |-> "waiting"])
           /\ resp' = [op |-> "subscribe", status |-> 0, ch |-> ch]
    /\ UNCHANGED <<now, auxVars, storeVars, users, tokenVars>>

watchReceive(ch) ==
    /\ ch \in DOMAIN watches
    /\ watches[ch].outcome = "waiting"
    /\ watches[ch].buf # <<>>
    /\ watches' = [watches EXCEPT ![ch].outcome = "config",
                                  ![ch].buf = Tail(@), ![ch].deadline = 0]
    /\ resp' = [op |-> "watch", status |-> 200, ch |-> ch,
                body |-> Head(watches[ch].buf)]
    /\ UNCHANGED <<now, auxVars, storeVars, subscribers, users, tokenVars>>

watchTimeout_Early(ch) ==
    /\ ch \in DOMAIN watches
    /\ watches[ch].outcome = "waiting"
    /\ watches[ch].buf = <<>>
    /\ watches' = [watches EXCEPT ![ch].outcome = "timeout",
                                  ![ch].deadline = 0]
    /\ resp' = [op |-> "watch", status |-> 304, ch |-> ch]
    /\ UNCHANGED <<now, auxVars, storeVars, subscribers, users, tokenVars>>

watchTimeout(ch) ==
    /\ ch \in DOMAIN watches
    /\ watches[ch].outcome = "waiting"
    /\ watches[ch].buf = <<>>
    /\ now >= watches[ch].deadline
    /\ watches' = [watches EXCEPT ![ch].outcome = "timeout",
                                  ![ch].deadline = 0]
    /\ resp' = [op |-> "watch", status |-> 304, ch |-> ch]
    /\ UNCHANGED <<now, auxVars, storeVars, subscribers, users, tokenVars>>

watchCancel(ch) ==
    /\ ch \in DOMAIN watches
    /\ watches[ch].outcome = "waiting"
    /\ watches[ch].buf = <<>>
    /\ watches' = [watches EXCEPT ![ch].outcome = "cancelled",
                                  ![ch].deadline = 0]
    /\ resp' = [op |-> "watch", status |-> 0, ch |-> ch]
    /\ UNCHANGED <<now, auxVars, storeVars, subscribers, users, tokenVars>>

----------------------------------------------------------------------------
(* The Watcher under concurrent calls.  Every call of Subscribe or Notify *)
(* is a goroutine procs[p] = [kind, pc, ch, ver, subs, i, skipped]: subs *)
(* is the slice the call holds in its local variable, ch the channel a   *)
(* Subscribe made, ver the Version of the Config a Notify carries, i the *)
(* number of channels its loop has passed and skipped the number of      *)
(* sends that took the default branch.  Each sync.Map method is one      *)
(* step.                                                                  *)

ConcKey == FullKey("public", "g", "k")

ConcConfig(ver) ==
    [Namespace |-> "public", Group |-> "g", Key |-> "k", Value |-> "x",
     Type |-> "text", Version |-> ver]

ProcRoom == Len(procs) < MaxProcs

(* ch := make(chan, 1); val, _ := LoadOrStore(fullKey, []) *)
SubscribeLoadOrStore ==
    /\ ProcRoom
    /\ LET ch == Len(watches) + 1
       IN  /\ watches' = Append(watches,
                  [ns |-> "public", group |-> "g", key |-> "k",
                   buf |-> <<>>, deadline |-> now + WatchTimeout,
                   outcome |-> "waiting"])
           /\ subscribers' = IF ConcKey \in DOMAIN subscribers
                             THEN subscribers
                             ELSE StoreAt(subscribers, ConcKey, <<>>)
           /\ procs' = Append(procs,
                  [kind |-> "Subscribe", pc |-> "Store", ch |-> ch,
                   ver |-> 0, subs |-> LoadOr(subscribers, ConcKey, <<>>),
                   i |-> 0, skipped |-> 0])
           /\ resp' = [op |-> "Subscribe.LoadOrStore", status |-> 0,
                       proc |-> Len(procs) + 1]
    /\ UNCHANGED <<now, pg, storeVars, users, tokenVars>>

(* subs = append(subs, ch); Store(fullKey, subs); return ch *)
SubscribeStore(p) ==
    /\ p \in DOMAIN procs
    /\ procs[p].kind = "Subscribe" /\ procs[p].pc = "Store"
    /\ subscribers' = StoreAt(subscribers, ConcKey,
                              Append(procs[p].subs, procs[p].ch))
    /\ procs' = [procs EXCEPT ![p].pc = "done",
                              ![p].subs = Append(@, procs[p].ch)]
    /\ resp' = [op |-> "Subscribe.Store", status |-> 0, proc |-> p]
    /\ UNCHANGED <<now, pg, storeVars, watches, users, tokenVars>>

(* val, ok := Load(fullKey); if !ok { return } *)
NotifyLoad ==
    /\ ProcRoom
    /\ LET ver == Cardinality({p \in DOMAIN procs :
                                  procs[p].kind = "Notify"}) + 1
           subs == LoadOr(subscribers, ConcKey, <<>>)
       IN  procs' = Append(procs,
              [kind |-> "Notify",
               pc |-> IF ConcKey \notin DOMAIN subscribers THEN "done"
                      ELSE IF subs = <<>> THEN "Delete" ELSE "send",
               ch |-> 0, ver |-> ver, subs |-> subs, i |-> 0,
               skipped |-> 0])
    /\ resp' = [op |-> "Notify.Load", status |-> 0, proc |-> Len(procs) + 1]
    /\ UNCHANGED <<now, pg, storeVars, watchVars, users, tokenVars>>

(* whether  select { case ch <- config: default: }  can proceed *)
SendReady_Blocking(buf) == Len(buf) < 1

SendReady(buf) == TRUE

(* one iteration of  for _, ch := range subs : the send to the channel   *)
(* the loop stands at, subs[i + 1]                                       *)
NotifySend(p) ==
    /\ p \in DOMAIN procs
    /\ procs[p].kind = "Notify" /\ procs[p].pc = "send"
    /\ LET c == procs[p].subs[procs[p].i + 1]
       IN  /\ SendReady(watches[c].buf)
           /\ watches' = [watches EXCEPT
                             ![c].buf = TrySend(@, ConcConfig(procs[p].ver))]
           /\ procs' = [procs EXCEPT
                           ![p].i = @ + 1,
                           ![p].skipped = IF Len(watches[c].buf) < 1
                                          THEN @ ELSE @ + 1,
                           ![p].pc = IF procs[p].i + 1 = Len(procs[p].subs)
                                     THEN "Delete" ELSE "send"]
    /\ resp' = [op |-> "Notify.send", status |-> 0, proc |-> p]
    /\ UNCHANGED <<now, pg, storeVars, subscribers, users, tokenVars>>

(* Delete(fullKey) *)
NotifyDelete(p) ==
    /\ p \in DOMAIN procs
    /\ procs[p].kind = "Notify" /\ procs[p].pc = "Delete"
    /\ subscribers' = DeleteAt(subscribers, ConcKey)
    /\ procs' = [procs EXCEPT ![p].pc = "done"]
    /\ resp' = [op |-> "Notify.Delete", status |-> 0, proc |-> p]
    /\ UNCHANGED <<now, pg, storeVars, watches, users, tokenVars>>

(* the watch handler reaches its select once Subscribe has returned *)
Returned(ch) ==
    \E p \in DOMAIN procs :
       /\ procs[p].kind = "Subscribe" /\ procs[p].ch = ch
       /\ procs[p].pc = "done"

----------------------------------------------------------------------------
(* putConfigHandler under concurrent requests on one key.  A request is   *)
(* a goroutine procs[p] = [kind, pc, config, histories, steps]: config is *)
(* the Config the handler built, histories the slice CreateHistory holds  *)
(* in its local variable and steps the store and Watcher calls the        *)
(* request has made so far.  Each store method is one step, CreateHistory *)
(* one step per sync.Map method; Notify is taken as one step.             *)

(* the request is bound and the Config built, its Version read from the   *)
(* clock                                                                  *)
putConfigHandlerBegin(value) ==
    /\ ProcRoom
    /\ procs' = Append(procs,
           [kind |-> "Put", pc |-> "Put",
            config |-> [ConcConfig(now) EXCEPT !.Value = value],
            histories |-> <<>>, steps |-> <<>>])
    /\ resp' = [op |-> "put.begin", status |-> 0, proc |-> Len(procs) + 1]
    /\ UNCHANGED <<now, pg, storeVars, watchVars, users, tokenVars>>

(* s.store.Put returns nil *)
putConfigHandlerPut(p) ==
    /\ p \in DOMAIN procs
    /\ procs[p].kind = "Put" /\ procs[p].pc = "Put"
    /\ data' = Put(data, procs[p].config)
    /\ procs' = [procs EXCEPT ![p].pc = "CreateHistory",
                              ![p].steps = Append(@, "Put")]
    /\ resp' = [op |-> "put.Put", status |-> 0, proc |-> p]
    /\ UNCHANGED <<now, pg, history, namespaces, watchVars, users, tokenVars>>

(* a handler that logs the error of s.store.Put and goes on *)
putConfigHandlerPutErr_Continues(p) ==
    /\ p \in DOMAIN procs
    /\ procs[p].kind = "Put" /\ procs[p].pc = "Put"
    /\ procs' = [procs EXCEPT ![p].pc = "CreateHistory",
                              ![p].steps = Append(@, "PutErr")]
    /\ resp' = [op |-> "put", status |-> 500, proc |-> p]
    /\ UNCHANGED <<now, pg, storeVars, watchVars, users, tokenVars>>

(* s.store.Put returns an error: the handler answers 500 and returns *)
putConfigHandlerPutErr(p) ==
    /\ p \in DOMAIN procs
    /\ procs[p].kind = "Put" /\ procs[p].pc = "Put"
    /\ procs' = [procs EXCEPT ![p].pc = "done",
                              ![p].steps = Append(@, "PutErr")]
    /\ resp' = [op |-> "put", status |-> 500, proc |-> p]
    /\ UNCHANGED <<now, pg, storeVars, watchVars, users, tokenVars>>

HistoryRecord(config) ==
    [Namespace |-> config.Namespace, Group |-> config.Group,
     Key |-> config.Key, Value |-> config.Value, Type |-> config.Type,
     Version |-> config.Version, OpType |-> "UPDATE"]

(* CreateHistory: val, _ := s.history.LoadOrStore(key, []) *)
CreateHistoryLoadOrStore(p) ==
    /\ p \in DOMAIN procs
    /\ procs[p].kind = "Put" /\ procs[p].pc = "CreateHistory"
    /\ history' = IF ConcKey \in DOMAIN history THEN history
                  ELSE StoreAt(history, ConcKey, <<>>)
    /\ procs' = [procs EXCEPT ![p].pc = "Store",
                              ![p].histories = LoadOr(history, ConcKey, <<>>)]
    /\ resp' = [op |-> "put.CreateHistory.LoadOrStore", status |-> 0,
                proc |-> p]
    /\ UNCHANGED <<now, pg, data, namespaces, watchVars, users, tokenVars>>

(* CreateHistory: histories = append(histories, history); Store *)
CreateHistoryStore(p) ==
    /\ p \in DOMAIN procs
    /\ procs[p].kind = "Put" /\ procs[p].pc = "Store"
    /\ history' = StoreAt(history, ConcKey,
                          Append(procs[p].histories,
                                 HistoryRecord(procs[p].config)))
    /\ procs' = [procs EXCEPT ![p].pc = "Notify",
                              ![p].steps = Append(@, "CreateHistory")]
    /\ resp' = [op |-> "put.CreateHistory.Store", status |-> 0, proc |-> p]
    /\ UNCHANGED <<now, pg, data, namespaces, watchVars, users, tokenVars>>

(* s.watcher.Notify(config), then 201 *)
putConfigHandlerNotify(p) ==
    /\ p \in DOMAIN procs
    /\ procs[p].kind = "Put" /\ procs[p].pc = "Notify"
    /\ watches' = NotifyChans(subscribers, watches, procs[p].config)
    /\ subscribers' = NotifySubs(subscribers, procs[p].config)
    /\ procs' = [procs EXCEPT ![p].pc = "done",
                              ![p].steps = Append(@, "Notify")]
    /\ resp' = [op |-> "put", status |-> 201, proc |-> p]
    /\ UNCHANGED <<now, pg, storeVars, users, tokenVars>>

(* watchConfigHandler up to its select; held is the Version the store     *)
(* holds for the key when the channel is registered, 0 when it holds none *)
watchConfigHandlerSubscribe ==
    /\ ProcRoom
    /\ LET ch == Len(watches) + 1
       IN  /\ subscribers' = Subscribe(subscribers, ch, "public", "g", "k")
           /\ watches' = Append(watches,
                  [ns |-> "public", group |-> "g", key |-> "k",
                   buf |-> <<>>, deadline |-> now + WatchTimeout,
                   outcome |-> "waiting"])
           /\ procs' = Append(procs,
                  [kind |-> "Watch", pc |-> "select", ch |-> ch,
                   held |-> IF ConcKey \in DOMAIN data
                            THEN data[ConcKey].Version ELSE 0])
           /\ resp' = [op |-> "subscribe", status |-> 0, ch |-> ch]
    /\ UNCHANGED <<now, pg, storeVars, users, tokenVars>>

----------------------------------------------------------------------------
(* User management handlers *)

validRoles == {"admin", "user"}
validStatuses == {"active", "inactive"}

createUserHandler(username, password, role, status) ==
    /\ users' =
         IF \/ username = "" \/ password = ""
            \/ role \notin validRoles \/ status \notin validStatuses
            \/ username \in DOMAIN users
         THEN users
         ELSE StoreAt(users, username,
                      [Username |-> username, Password |-> MD5Encrypt(password),
                       Role |-> role, Status |-> status])
    /\ resp' = [op |-> "createUser", username |-> username,
                status |-> IF \/ username = "" \/ password = ""
                              \/ role \notin validRoles
                              \/ status \notin validStatuses
                           THEN 400
                           ELSE IF username \in DOMAIN users THEN 409 ELSE 201]
    /\ UNCHANGED <<now, auxVars, storeVars, watchVars, tokenVars>>

(* the handler changes the stored *model.User in place, then UpdateUser *)
updateUserHandler(username, password, role, status) ==
    /\ users' =
         IF \/ role \notin validRoles \/ status \notin validStatuses
            \/ username \notin DOMAIN users
         THEN users
         ELSE [users EXCEPT ![username] =
                  [@ EXCEPT !.Password = IF password # ""
                                         THEN MD5Encrypt(password) ELSE @,
                            !.Role = role, !.Status = status]]
    /\ resp' = [op |-> "updateUser", username |-> username,
                status |-> IF \/ role \notin validRoles
                              \/ status \notin validStatuses
                           THEN 400
                           ELSE IF username \notin DOMAIN users THEN 404
                           ELSE 200]
    /\ UNCHANGED <<now, auxVars, storeVars, watchVars, tokenVars>>

adminCount_All(us) == Cardinality(DOMAIN us)

adminCount(us) == Cardinality({u \in DOMAIN us : IsAdmin(us, u)})

deleteUserHandler(username) ==
    /\ LET status == IF username \notin DOMAIN users THEN 404
                     ELSE IF IsAdmin(users, username) /\ adminCount(users) <= 1
                          THEN 403
                     ELSE 204
       IN  /\ users' = IF status = 204 THEN DeleteAt(users, username) ELSE users
           /\ resp' = [op |-> "deleteUser", username |-> username,
                       role |-> IF username \in DOMAIN users
                                THEN users[username].Role ELSE "",
                       status |-> status]
    /\ UNCHANGED <<now, auxVars, storeVars, watchVars, tokenVars>>

----------------------------------------------------------------------------
(* deleteUserHandler under concurrent requests: a request is a goroutine  *)
(* procs[p] = [kind, pc, username, status], one step per store call      *)

(* user, err := s.store.GetUser(username) *)
deleteUserHandlerGetUser(username) ==
    /\ ProcRoom
    /\ procs' = Append(procs,
           [kind |-> "deleteUser", username |-> username,
            pc |-> IF username \notin DOMAIN users THEN "done"
                   ELSE IF users[username].Role = "admin" THEN "ListUsers"
                   ELSE "DeleteUser",
            status |-> IF username \notin DOMAIN users THEN 404 ELSE 0])
    /\ resp' = [op |-> "deleteUser.GetUser", status |-> 0,
                proc |-> Len(procs) + 1]
    /\ UNCHANGED <<now, pg, storeVars, watchVars, users, tokenVars>>

(* users, err := s.store.ListUsers(); the admins are counted *)
deleteUserHandlerListUsers(p) ==
    /\ p \in DOMAIN procs
    /\ procs[p].kind = "deleteUser" /\ procs[p].pc = "ListUsers"
    /\ procs' = IF adminCount(users) <= 1
                THEN [procs EXCEPT ![p].pc = "done", ![p].status = 403]
                ELSE [procs EXCEPT ![p].pc = "DeleteUser"]
    /\ resp' = [op |-> "deleteUser.ListUsers", status |-> 0, proc |-> p]
    /\ UNCHANGED <<now, pg, storeVars, watchVars, users, tokenVars>>

(* s.store.DeleteUser(username): ErrNotFound is answered 500 *)
deleteUserHandlerDeleteUser(p) ==
    /\ p \in DOMAIN procs
    /\ procs[p].kind = "deleteUser" /\ procs[p].pc = "DeleteUser"
    /\ LET found == procs[p].username \in DOMAIN users
       IN  /\ users' = IF found THEN DeleteAt(users, procs[p].username)
                       ELSE users
           /\ procs' = [procs EXCEPT ![p].pc = "done",
                           ![p].status = IF found THEN 204 ELSE 500]
    /\ resp' = [op |-> "deleteUser.DeleteUser", status |-> 0, proc |-> p]
    /\ UNCHANGED <<now, pg, storeVars, watchVars, tokenVars>>

----------------------------------------------------------------------------
(* Token state of the store *)

AddTokenToBlacklist(token, expiresAt) ==
    /\ tokenBlacklist' = StoreAt(tokenBlacklist, token, expiresAt)
    /\ resp' = [op |-> "blacklist", status |-> 0, token |-> token]
    /\ UNCHANGED <<now, auxVars, storeVars, watchVars, users, tokenUsage, recent,
                   issued>>

(* IsTokenBlacklisted: the answer, and the table after the lookup removed  *)
(* an entry it found expired                                               *)
IsTokenBlacklisted(bl, token, t) ==
    token \in DOMAIN bl /\ ~(t > bl[token])

BlacklistAfterLookup(bl, token, t) ==
    IF token \in DOMAIN bl /\ t > bl[token] THEN DeleteAt(bl, token) ELSE bl

CleanupExpiredTokens_All ==
    /\ tokenBlacklist' = <<>>
    /\ resp' = [op |-> "cleanup", status |-> 0]
    /\ UNCHANGED <<now, auxVars, storeVars, watchVars, users, tokenUsage, recent,
                   issued>>

CleanupExpiredTokens ==
    /\ tokenBlacklist' = [k \in {x \in DOMAIN tokenBlacklist :
                                    ~(now > tokenBlacklist[x])} |->
                             tokenBlacklist[k]]
    /\ resp' = [op |-> "cleanup", status |-> 0]
    /\ UNCHANGED <<now, auxVars, storeVars, watchVars, users, tokenUsage, recent,
                   issued>>

CheckTokenRateLimit(usage, token, limit, t) ==
    IF token \notin DOMAIN usage THEN TRUE
    ELSE IF t > usage[token].ExpiresAt THEN TRUE
    ELSE usage[token].Count < limit

IncrementTokenUsage_NoReset(usage, token, t) ==
    LET record == IF token \in DOMAIN usage
                  THEN usage[token]
                  ELSE [Count |-> 0, ExpiresAt |-> t + Window]
    IN  StoreAt(usage, token, [record EXCEPT !.Count = @ + 1])

(* LastUsage is written and never read; it is left out *)
IncrementTokenUsage(usage, token, t) ==
    LET record == IF token \in DOMAIN usage /\ ~(t > usage[token].ExpiresAt)
                  THEN usage[token]
                  ELSE [Count |-> 0, ExpiresAt |-> t + Window]
    IN  StoreAt(usage, token, [record EXCEPT !.Count = @ + 1])

----------------------------------------------------------------------------
(* authMiddleware and its gin wrapper *)

(* jwt.ParseWithClaims with the server's secret: signature and expiry *)
ParseWithClaims(token, t) == token.Sig = "ok" /\ t < token.ExpiresAt

(* The checks of authMiddleware on an Authorization header given as its    *)
(* space-separated parts: the status written, whether next was called and  *)
(* the checks that ran, in order                                           *)
authMiddleware(header, bl, usage, t) ==
    IF header = <<>>
    THEN [status |-> 401, next |-> FALSE, ran |-> <<"header">>]
    ELSE IF Len(header) # 2
    THEN [status |-> 401, next |-> FALSE, ran |-> <<"header">>]
    ELSE LET tokenStr == header[2] IN
    IF IsTokenBlacklisted(bl, tokenStr, t)
    THEN [status |-> 401, next |-> FALSE, ran |-> <<"header", "blacklist">>]
    ELSE IF ~CheckTokenRateLimit(usage, tokenStr, RateLimit, t)
    THEN [status |-> 429, next |-> FALSE,
          ran |-> <<"header", "blacklist", "ratelimit">>]
    ELSE IF ~ParseWithClaims(tokenStr, t)
    THEN [status |-> 401, next |-> FALSE,
          ran |-> <<"header", "blacklist", "ratelimit", "increment", "parse">>]
    ELSE IF tokenStr.TokenType # "access"
    THEN [status |-> 401, next |-> FALSE,
          ran |-> <<"header", "blacklist", "ratelimit", "increment", "parse",
                    "kind">>]
    ELSE [status |-> 200, next |-> TRUE, username |-> tokenStr.Username,
          ran |-> <<"header", "blacklist", "ratelimit", "increment", "parse",
                    "kind">>]

(* gin.Context runs the handlers of the chain one after the other: the     *)
(* route handler runs inside c.Next() when the middleware calls it, and    *)
(* after the middleware returns unless the middleware aborted the context. *)
(* ginAuthMiddleware calls c.Next() in the callback it passes as next and  *)
(* calls neither c.Abort() nor c.AbortWithStatus().                        *)
ginAborted(r) == FALSE

ginHandlerRuns(r) == r.next \/ ~ginAborted(r)

Ran(r, step) == \E i \in 1..Len(r.ran) : r.ran[i] = step

ginAuthMiddleware(header) ==
    LET r == authMiddleware(header, tokenBlacklist, tokenUsage, now)
        tokenStr == header[2]
    IN  /\ tokenBlacklist' = IF Ran(r, "blacklist")
                             THEN BlacklistAfterLookup(tokenBlacklist, tokenStr, now)
                             ELSE tokenBlacklist
        /\ tokenUsage' = IF Ran(r, "increment")
                         THEN IncrementTokenUsage(tokenUsage, tokenStr, now)
                         ELSE tokenUsage
        /\ recent' = IF Ran(r, "increment") /\ tokenStr = IssuedTokens.access
                     THEN [recent EXCEPT ![1] = @ + 1]
                     ELSE recent
        /\ resp' = [op |-> "auth", header |-> header, status |-> r.status,
                    next |-> r.next, ran |-> r.ran,
                    handler |-> ginHandlerRuns(r),
                    username |-> IF r.next THEN r.username ELSE ""]
        /\ UNCHANGED <<now, auxVars, storeVars, watchVars, users, issued>>

----------------------------------------------------------------------------
(* The rate-limit steps of authMiddleware under concurrent requests with  *)
(* one token: a request is a goroutine procs[p] = [kind, pc, count,      *)
(* status].  record.Count++ in IncrementTokenUsage is an unsynchronised   *)
(* read and write of a shared record: count is the value read.            *)

(* allowed := s.store.CheckTokenRateLimit(tokenStr, 100, time.Minute) *)
authCheckTokenRateLimit ==
    /\ ProcRoom
    /\ LET allowed == CheckTokenRateLimit(tokenUsage, IssuedTokens.access,
                                          RateLimit, now)
       IN  procs' = Append(procs,
              [kind |-> "auth", count |-> 0,
               pc |-> IF allowed THEN "Increment" ELSE "done",
               status |-> IF allowed THEN 0 ELSE 429])
    /\ resp' = [op |-> "auth.CheckTokenRateLimit", status |-> 0,
                proc |-> Len(procs) + 1]
    /\ UNCHANGED <<now, pg, storeVars, watchVars, users, tokenVars>>

(* IncrementTokenUsage: LoadOrStore, reset of an expired record, and the  *)
(* read of record.Count                                                    *)
IncrementTokenUsageLoad(p) ==
    /\ p \in DOMAIN procs
    /\ procs[p].kind = "auth" /\ procs[p].pc = "Increment"
    /\ LET token == IssuedTokens.access
           record == IF token \in DOMAIN tokenUsage
                        /\ ~(now > tokenUsage[token].ExpiresAt)
                     THEN tokenUsage[token]
                     ELSE [Count |-> 0, ExpiresAt |-> now + Window]
       IN  /\ tokenUsage' = StoreAt(tokenUsage, token, record)
           /\ procs' = [procs EXCEPT ![p].pc = "Count++",
                                     ![p].count = record.Count]
    /\ resp' = [op |-> "auth.IncrementTokenUsage.Load", status |-> 0,
                proc |-> p]
    /\ UNCHANGED <<now, pg, storeVars, watchVars, users, tokenBlacklist,
                   recent, issued>>

(* IncrementTokenUsage: the write of record.Count; the request goes on *)
IncrementTokenUsageWrite(p) ==
    /\ p \in DOMAIN procs
    /\ procs[p].kind = "auth" /\ procs[p].pc = "Count++"
    /\ tokenUsage' = [tokenUsage EXCEPT
                         ![IssuedTokens.access].Count = procs[p].count + 1]
    /\ procs' = [procs EXCEPT ![p].pc = "done", ![p].status = 200]
    /\ resp' = [op |-> "auth.IncrementTokenUsage.Write", status |-> 0,
                proc |-> p]
    /\ UNCHANGED <<now, pg, storeVars, watchVars, users, tokenBlacklist,
                   recent, issued>>

----------------------------------------------------------------------------
(* loginHandler and refreshTokenHandler: the public token endpoints *)

loginStatus_IgnoresAccountStatus(us, username, password) ==
    IF username = "" \/ password = "" THEN 400
    ELSE IF username \notin DOMAIN us THEN 401
    ELSE IF ~CheckPassword(password, us[username].Password) THEN 401
    ELSE 200

(* the checks of loginHandler, in order: the status it answers with *)
loginStatus(us, username, password) ==
    IF username = "" \/ password = "" THEN 400
    ELSE IF username \notin DOMAIN us THEN 401
    ELSE IF ~CheckPassword(password, us[username].Password) THEN 401
    ELSE IF us[username].Status # "active" THEN 401
    ELSE 200

loginHandler(username, password) ==
    LET status == loginStatus(users, username, password)
        tokens == generateTokens(username, now)
    IN  /\ issued' = IF status = 200
                     THEN issued \cup {tokens.access, tokens.refresh}
                     ELSE issued
        /\ resp' = [op |-> "login", username |-> username,
                    password |-> password, status |-> status,
                    body |-> IF status = 200 THEN {tokens.access, tokens.refresh}
                             ELSE {}]
        /\ UNCHANGED <<now, auxVars, storeVars, watchVars, users, tokenBlacklist,
                       tokenUsage, recent>>

refreshStatus_AnyKind(req, t) ==
    IF req = <<>> THEN 400
    ELSE IF ~ParseWithClaims(req[1], t) THEN 401
    ELSE 200

(* the checks of refreshTokenHandler, in order; req is the request body's *)
(* refresh_token, <<>> when missing                                       *)
refreshStatus(req, t) ==
    IF req = <<>> THEN 400
    ELSE IF ~ParseWithClaims(req[1], t) THEN 401
    ELSE IF req[1].TokenType # "refresh" THEN 401
    ELSE 200

refreshTokenHandler(req) ==
    LET status == refreshStatus(req, now)
        tokens == generateTokens(req[1].Username, now)
    IN  /\ issued' = IF status = 200
                     THEN issued \cup {tokens.access, tokens.refresh}
                     ELSE issued
        /\ resp' = [op |-> "refresh", req |-> req, status |-> status,
                    body |-> IF status = 200 THEN {tokens.access, tokens.refresh}
                             ELSE {}]
        /\ UNCHANGED <<now, auxVars, storeVars, watchVars, users, tokenBlacklist,
                       tokenUsage, recent>>

----------------------------------------------------------------------------
(* The Store interface called on the in-memory store and on the          *)
(* PostgresStore with the same arguments; resp holds what each returned. *)

Contents(c) ==
    IF c = ErrNotFound THEN c
    ELSE [Value |-> c.Value, Type |-> c.Type, Version |-> c.Version]

storePut(config) ==
    /\ data' = Put(data, config)
    /\ pg' = PgPut(pg, config)
    /\ resp' = [op |-> "store.Put", config |-> config, mem |-> "ok",
                pg |-> IF PgPutErr(pg, config) = "ok" THEN "ok" ELSE "error"]
    /\ UNCHANGED <<now, procs, history, namespaces, watchVars, users,
                   tokenVars>>

storeGet(namespace, group, key) ==
    /\ resp' = [op |-> "store.Get",
                mem |-> Contents(Get(data, namespace, group, key)),
                pg |-> Contents(PgGet(pg, namespace, group, key))]
    /\ UNCHANGED <<now, auxVars, storeVars, watchVars, users, tokenVars>>

storeDelete(namespace, group, key) ==
    /\ data' = Delete(data, namespace, group, key)
    /\ pg' = PgDelete(pg, namespace, group, key)
    /\ resp' = [op |-> "store.Delete", mem |-> "ok", pg |-> "ok"]
    /\ UNCHANGED <<now, procs, history, namespaces, watchVars, users,
                   tokenVars>>

storeList(namespace, group) ==
    /\ resp' = [op |-> "store.List",
                mem |-> {Contents(c) : c \in List(data, namespace, group)},
                pg |-> {Contents(c) : c \in PgList(pg, namespace, group)}]
    /\ UNCHANGED <<now, auxVars, storeVars, watchVars, users, tokenVars>>

storeCreateNamespace(namespace) ==
    LET err == CreateNamespaceErr(namespaces, namespace)
        pgErr == PgCreateNamespaceErr(pg, namespace)
    IN  /\ namespaces' = IF err = "ok" THEN namespaces \cup {namespace}
                         ELSE namespaces
        /\ pg' = PgCreateNamespace(pg, namespace)
        /\ resp' = [op |-> "store.CreateNamespace", ns |-> namespace,
                    mem |-> IF err = "ok" THEN "ok" ELSE "error",
                    pg |-> IF pgErr = "ok" THEN "ok" ELSE "error"]
        /\ UNCHANGED <<now, procs, data, history, watchVars, users,
                       tokenVars>>

storeDeleteNamespace(namespace) ==
    LET err == DeleteNamespaceErr(namespaces, data, namespace)
        pgErr == PgDeleteNamespaceErr(pg, namespace)
    IN  /\ namespaces' = IF err = "ok" THEN namespaces \ {namespace}
                         ELSE namespaces
        /\ pg' = PgDeleteNamespace(pg, namespace)
        /\ resp' = [op |-> "store.DeleteNamespace", ns |-> namespace,
                    mem |-> IF err = "ok" THEN "ok" ELSE "error",
                    pg |-> IF pgErr = "ok" THEN "ok" ELSE "error"]
        /\ UNCHANGED <<now, procs, data, history, watchVars, users,
                       tokenVars>>

storeAddTokenToBlacklist(token, expiresAt) ==
    /\ tokenBlacklist' = StoreAt(tokenBlacklist, token, expiresAt)
    /\ resp' = [op |-> "store.AddTokenToBlacklist", mem |-> "ok",
                pg |-> "ok"]
    /\ UNCHANGED <<now, auxVars, storeVars, watchVars, users, tokenUsage,
                   recent, issued>>

storeIsTokenBlacklisted(token) ==
    /\ tokenBlacklist' = BlacklistAfterLookup(tokenBlacklist, token, now)
    /\ resp' = [op |-> "store.IsTokenBlacklisted", token |-> token,
                mem |-> IsTokenBlacklisted(tokenBlacklist, token, now),
                pg |-> PgIsTokenBlacklisted(token)]
    /\ UNCHANGED <<now, auxVars, storeVars, watchVars, users, tokenUsage,
                   recent, issued>>

storeIncrementTokenUsage(token) ==
    /\ tokenUsage' = IncrementTokenUsage(tokenUsage, token, now)
    /\ resp' = [op |-> "store.IncrementTokenUsage", mem |-> "ok",
                pg |-> "ok"]
    /\ UNCHANGED <<now, auxVars, storeVars, watchVars, users, tokenBlacklist,
                   recent, issued>>

storeCheckTokenRateLimit(token) ==
    /\ resp' = [op |-> "store.CheckTokenRateLimit",
                mem |-> CheckTokenRateLimit(tokenUsage, token, RateLimit, now),
                pg |-> PgCheckTokenRateLimit(token, RateLimit)]
    /\ UNCHANGED <<now, auxVars, storeVars, watchVars, users, tokenVars>>

----------------------------------------------------------------------------
(* Spec: the store and the versioning handlers, requests one at a time *)

Next ==
    \/ Tick(MaxTime)
    \/ \E ns \in NsNames, g \in GroupNames, k \in KeyNames,
          v \in ReqValues, t \in ReqTypes :
          HistRoom(MaxHist) /\ putConfigHandler(ns, g, k, v, t)
    \/ \E ns \in NsNames, g \in GroupNames, k \in KeyNames :
          HistRoom(MaxHist) /\ deleteConfigHandler(ns, g, k)
    \/ \E ns \in NsNames, g \in GroupNames, k \in KeyNames,
          ver \in ReqVersions :
          HistRoom(MaxHist) /\ rollbackConfigHandler(ns, g, k, ver)
    \/ \E ns \in NsNames, g \in GroupNames, k \in KeyNames :
          getConfigHandler(ns, g, k)
    \/ \E ns \in NsNames, g \in GroupNames : listConfigsHandler(ns, g)

Spec == Init /\ [][Next]_vars

(* HistSpec: the mutating handlers and the history listing *)

HistNext ==
    \/ Tick(MaxTime)
    \/ \E ns \in NsNames, g \in GroupNames, k \in KeyNames,
          v \in ReqValues, ty \in ReqTypes :
          HistRoom(MaxHist) /\ putConfigHandler(ns, g, k, v, ty)
    \/ \E ns \in NsNames, g \in GroupNames, k \in KeyNames :
          HistRoom(MaxHist) /\ deleteConfigHandler(ns, g, k)
    \/ \E ns \in NsNames, g \in GroupNames, k \in KeyNames,
          ver \in ReqVersions :
          HistRoom(MaxHist) /\ rollbackConfigHandler(ns, g, k, ver)
    \/ \E ns \in NsNames, g \in GroupNames, k \in KeyNames :
          listHistoryHandler(ns, g, k)

HistSpec == Init /\ [][HistNext]_vars

(* WatchSpec: the mutating handlers with long-poll watchers *)

WatchNext ==
    \/ Tick(MaxTime)
    \/ \E ns \in NsNames, g \in GroupNames, k \in KeyNames :
          WatchRoom /\ putConfigHandler(ns, g, k, "x", "")
    \/ \E ns \in NsNames, g \in GroupNames, k \in KeyNames :
          WatchRoom /\ deleteConfigHandler(ns, g, k)
    \/ \E ns \in NsNames, g \in GroupNames, k \in KeyNames,
          ver \in ReqVersions :
          WatchRoom /\ rollbackConfigHandler(ns, g, k, ver)
    \/ \E ns \in NsNames, g \in GroupNames, k \in KeyNames :
          WatchRoom /\ watchSubscribe(ns, g, k)
    \/ \E ch \in DOMAIN watches : watchReceive(ch)
    \/ \E ch \in DOMAIN watches : watchTimeout(ch)
    \/ \E ch \in DOMAIN watches : watchCancel(ch)

WatchSpec == Init /\ [][WatchNext]_vars

(* NsSpec: namespaces and the configs that refer to them.  The route    *)
(* DELETE /namespaces/:namespace matches a non-empty segment only, so the *)
(* delete handler is never entered with an empty name.                    *)

ReqNamespaces == {"", "public", "dev"}

NsNext ==
    \/ \E ns \in ReqNamespaces : createNamespaceHandler(ns)
    \/ \E ns \in NsNames : deleteNamespaceHandler(ns)
    \/ \E ns \in NsNames, g \in GroupNames, k \in KeyNames :
          HistRoom(MaxHist) /\ putConfigHandler(ns, g, k, "x", "")
    \/ \E ns \in NsNames, g \in GroupNames, k \in KeyNames :
          HistRoom(MaxHist) /\ deleteConfigHandler(ns, g, k)

NsSpec == Init /\ [][NsNext]_vars

(* UserSpec: user management *)

Usernames == {"admin", "bob"}
ReqPasswords == {"", "pw"}
ReqRoles == {"admin", "user", "root"}
ReqStatuses == {"active", "inactive", "locked"}

UserNext ==
    \/ \E u \in Usernames, p \in ReqPasswords, r \in ReqRoles,
          st \in ReqStatuses : createUserHandler(u, p, r, st)
    \/ \E u \in Usernames, p \in ReqPasswords, r \in ReqRoles,
          st \in ReqStatuses : updateUserHandler(u, p, r, st)
    \/ \E u \in Usernames : deleteUserHandler(u)

UserSpec == Init /\ [][UserNext]_vars

(* AuthSpec: protected requests, the blacklist and the sweep *)

AuthHeaders ==
    {<<>>, <<"Bearer">>} \cup {<<"Bearer", t>> : t \in AuthTokens}

AuthNext ==
    \/ Tick(AuthMaxTime)
    \/ \E h \in AuthHeaders : ginAuthMiddleware(h)
    \/ \E e \in 1..AuthMaxTime :
          AddTokenToBlacklist(IssuedTokens.access, e)
    \/ CleanupExpiredTokens

AuthSpec == Init /\ [][AuthNext]_vars

(* LoginSpec: login, refresh and the blacklist.  A client presents a    *)
(* token it was issued, or a copy of one signed with another secret; a    *)
(* token is blacklisted until its own expiry.                             *)

LoginNames == {"", "admin", "bob"}
LoginPasswords == {"", "admin", "pw"}
TokenRoom == Cardinality(issued) < 2 * MaxPairs
Forged(token) == [token EXCEPT !.Sig = "forged"]
RefreshRequests ==
    {<<>>} \cup {<<t>> : t \in issued} \cup {<<Forged(t)>> : t \in issued}

LoginNext ==
    \/ Tick(LoginMaxTime)
    \/ \E u \in LoginNames, p \in LoginPasswords :
          TokenRoom /\ loginHandler(u, p)
    \/ \E req \in RefreshRequests : TokenRoom /\ refreshTokenHandler(req)
    \/ \E p \in {"", "pw"}, st \in validStatuses :
          updateUserHandler("admin", p, "admin", st)
    \/ \E t \in issued : AddTokenToBlacklist(t, t.ExpiresAt)

LoginSpec == Init /\ [][LoginNext]_vars

(* EquivSpec: one sequence of Store calls made on both stores *)

EquivConfigs ==
    {[Namespace |-> ns, Group |-> g, Key |-> k, Value |-> v, Type |-> ty,
      Version |-> now] :
        ns \in NsNames, g \in GroupNames, k \in KeyNames,
        v \in {"x", "y"}, ty \in {"text", "json"}}

EquivNext ==
    \/ Tick(MaxTime)
    \/ \E c \in EquivConfigs : storePut(c)
    \/ \E ns \in NsNames, g \in GroupNames, k \in KeyNames :
          storeGet(ns, g, k)
    \/ \E ns \in NsNames, g \in GroupNames, k \in KeyNames :
          storeDelete(ns, g, k)
    \/ \E ns \in NsNames, g \in GroupNames : storeList(ns, g)
    \/ \E ns \in NsNames : storeCreateNamespace(ns)
    \/ \E ns \in NsNames : storeDeleteNamespace(ns)
    \/ storeAddTokenToBlacklist(IssuedTokens.access, now + 1)
    \/ storeIsTokenBlacklisted(IssuedTokens.access)
    \/ /\ CheckTokenRateLimit(tokenUsage, IssuedTokens.access, RateLimit, now)
       /\ storeIncrementTokenUsage(IssuedTokens.access)
    \/ storeCheckTokenRateLimit(IssuedTokens.access)

EquivSpec == Init /\ [][EquivNext]_vars

(* SweepSpec: the token tables of the in-memory store, their lookups and *)
(* the sweep.  SweepFairSpec adds the ticker of startTokenCleanup, which  *)
(* runs the sweep again and again for as long as the store lives.         *)

SweepTokens == {IssuedTokens.access, IssuedTokens.refresh}

startTokenCleanup == CleanupExpiredTokens

SweepNext ==
    \/ Tick(AuthMaxTime)
    \/ \E tok \in SweepTokens, e \in 1..AuthMaxTime :
          storeAddTokenToBlacklist(tok, e)
    \/ \E tok \in SweepTokens : storeIsTokenBlacklisted(tok)
    \/ /\ CheckTokenRateLimit(tokenUsage, IssuedTokens.access, RateLimit, now)
       /\ storeIncrementTokenUsage(IssuedTokens.access)
    \/ startTokenCleanup

SweepSpec == Init /\ [][SweepNext]_vars

SweepFairSpec == SweepSpec /\ WF_vars(startTokenCleanup)

(* FailSpec: the Config handlers over a store whose history append can  *)
(* fail                                                                   *)

FailValues == {"x", "y"}

FailNext ==
    \/ Tick(MaxTime)
    \/ \E ns \in NsNames, g \in GroupNames, k \in KeyNames,
          v \in FailValues :
          HistRoom(MaxHist) /\ putConfigHandler(ns, g, k, v, "")
    \/ \E ns \in NsNames, g \in GroupNames, k \in KeyNames,
          v \in FailValues :
          putConfigHandlerHistErr(ns, g, k, v, "")
    \/ \E ns \in NsNames, g \in GroupNames, k \in KeyNames :
          HistRoom(MaxHist) /\ deleteConfigHandler(ns, g, k)
    \/ \E ns \in NsNames, g \in GroupNames, k \in KeyNames :
          getConfigHandler(ns, g, k)

FailSpec == Init /\ [][FailNext]_vars

(* ConcSpec: calls of Subscribe and Notify on one key, interleaved at    *)
(* the sync.Map methods and the channel operations.  ConcFairSpec: the    *)
(* scheduler runs every goroutine that can take a step.                   *)

ConcNext ==
    \/ SubscribeLoadOrStore
    \/ \E p \in 1..MaxProcs : SubscribeStore(p)
    \/ NotifyLoad
    \/ \E p \in 1..MaxProcs : NotifySend(p)
    \/ \E p \in 1..MaxProcs : NotifyDelete(p)
    \/ \E ch \in DOMAIN watches : Returned(ch) /\ watchReceive(ch)
    \/ \E ch \in DOMAIN watches : Returned(ch) /\ watchCancel(ch)

ConcSpec == Init /\ [][ConcNext]_vars

ConcFairSpec ==
    /\ ConcSpec
    /\ \A p \in 1..MaxProcs :
          /\ WF_vars(SubscribeStore(p))
          /\ WF_vars(NotifySend(p))
          /\ WF_vars(NotifyDelete(p))

(* RaceSpec: put and watch requests on one key, interleaved at the store  *)
(* and Watcher calls                                                      *)

RaceNext ==
    \/ Tick(MaxTime)
    \/ putConfigHandlerBegin("x")
    \/ \E p \in 1..MaxProcs : putConfigHandlerPut(p)
    \/ \E p \in 1..MaxProcs : putConfigHandlerPutErr(p)
    \/ \E p \in 1..MaxProcs : CreateHistoryLoadOrStore(p)
    \/ \E p \in 1..MaxProcs : CreateHistoryStore(p)
    \/ \E p \in 1..MaxProcs : putConfigHandlerNotify(p)
    \/ watchConfigHandlerSubscribe
    \/ \E ch \in DOMAIN watches : watchReceive(ch)

RaceSpec == Init /\ [][RaceNext]_vars

(* OrderSpec: the same requests within one second of the clock, with two  *)
(* request values                                                         *)

OrderNext ==
    \/ \E v \in FailValues : putConfigHandlerBegin(v)
    \/ \E p \in 1..MaxProcs : putConfigHandlerPut(p)
    \/ \E p \in 1..MaxProcs : putConfigHandlerPutErr(p)
    \/ \E p \in 1..MaxProcs : CreateHistoryLoadOrStore(p)
    \/ \E p \in 1..MaxProcs : CreateHistoryStore(p)
    \/ \E p \in 1..MaxProcs : putConfigHandlerNotify(p)
    \/ watchConfigHandlerSubscribe
    \/ \E ch \in DOMAIN watches : watchReceive(ch)

OrderSpec == Init /\ [][OrderNext]_vars

(* UserRaceSpec: delete-user requests interleaved at the store calls,    *)
(* with users created in between                                          *)

UserRaceNext ==
    \/ \E u \in Usernames, r \in validRoles :
          createUserHandler(u, "pw", r, "active")
    \/ \E u \in Usernames : deleteUserHandlerGetUser(u)
    \/ \E p \in 1..MaxProcs : deleteUserHandlerListUsers(p)
    \/ \E p \in 1..MaxProcs : deleteUserHandlerDeleteUser(p)

UserRaceSpec == Init /\ [][UserRaceNext]_vars

(* RateSpec: requests with one token inside one window, interleaved at   *)
(* the store calls of the rate-limit steps                                *)

RateNext ==
    \/ authCheckTokenRateLimit
    \/ \E p \in 1..MaxProcs : IncrementTokenUsageLoad(p)
    \/ \E p \in 1..MaxProcs : IncrementTokenUsageWrite(p)

RateSpec == Init /\ [][RateNext]_vars

(* SepSpec: the store and the Watcher called with names that may contain  *)
(* the separator of the concatenated key.  The gin routes hand over path  *)
(* segments, which contain no "/"; here the handlers' calls are made with *)
(* any name of SepNamespaces and SepGroups.                               *)

SepNamespaces == {"a", "a/b"}
SepGroups == {"c", "b/c"}
HasSeparator(name) == name \in {"a/b", "b/c"}

SepNext ==
    \/ \E ns \in SepNamespaces, g \in SepGroups :
          WatchRoom /\ putConfigHandler(ns, g, "k", "x", "")
    \/ \E ns \in SepNamespaces, g \in SepGroups :
          WatchRoom /\ deleteConfigHandler(ns, g, "k")
    \/ \E ns \in SepNamespaces, g \in SepGroups :
          WatchRoom /\ watchSubscribe(ns, g, "k")
    \/ \E ch \in DOMAIN watches : watchReceive(ch)

SepSpec == Init /\ [][SepNext]_vars

-----------------------------------------------------------------------------
(* pkg/client: WatchConfig and RefreshToken of the SDK                    *)
(*                                                                        *)
(* One Client and the goroutine of one WatchConfig call.  The goroutine   *)
(* is the record procs[p]: token and refreshToken are the Client's        *)
(* fields, urlOk says whether http.NewRequest accepts the url built from  *)
(* the endpoint and the names, sent is the Authorization header of the    *)
(* request in flight ("" when none is set), err, status and decodable     *)
(* describe what watchClient.Do returned, calls counts the invocations of *)
(* the callback for that response, refreshed and access record a          *)
(* RefreshToken that succeeded and the AccessToken it decoded.  What the  *)
(* server answers is an input of the step.                                *)

ClientTokens == {"", "t0"}
ClientRefreshTokens == {"", "r0"}
IssuedAccessTokens == {"t1", "t2"}
IssuedRefreshTokens == {"", "r1"}
WatchStatuses == {200, 304, 401, 500}

Bearer(token) == "Bearer " \o token

IsWatchConfig(p) == p \in DOMAIN procs /\ procs[p].kind = "WatchConfig"

(* go func() { url := ...; for { ... } }() : the call starts the          *)
(* goroutine and returns                                                  *)
WatchConfig(token, refreshToken, urlOk) ==
    /\ procs = <<>>
    /\ procs' = <<[kind |-> "WatchConfig", pc |-> "NewRequest",
                   token |-> token, refreshToken |-> refreshToken,
                   urlOk |-> urlOk, sent |-> "", err |-> FALSE,
                   status |-> 0, decodable |-> FALSE, calls |-> 0,
                   refreshed |-> FALSE, access |-> ""]>>
    /\ resp' = [op |-> "WatchConfig", status |-> 0, proc |-> 1]
    /\ UNCHANGED <<now, pg, storeVars, watchVars, users, tokenVars>>

(* req, err := http.NewRequest(GET, url, nil); on err: updateStats,       *)
(* Sleep(2s), continue; else the Authorization header is set from c.token *)
(* and watchClient.Do(req) is called                                      *)
WatchConfigNewRequest(p) ==
    /\ IsWatchConfig(p) /\ procs[p].pc = "NewRequest"
    /\ procs' = [procs EXCEPT ![p] =
          IF procs[p].urlOk
          THEN [@ EXCEPT !.pc = "Do",
                         !.sent = IF procs[p].token # ""
                                  THEN Bearer(procs[p].token) ELSE ""]
          ELSE [@ EXCEPT !.pc = "Sleep"]]
    /\ resp' = [op |-> "WatchConfig.NewRequest", status |-> 0, proc |-> p]
    /\ UNCHANGED <<now, pg, storeVars, watchVars, users, tokenVars>>

(* resp, err := watchClient.Do(req): a transport error (the Timeout of    *)
(* the watch client included) or a response with a status and a body      *)
WatchConfigDo(p, err, status, decodable) ==
    /\ IsWatchConfig(p) /\ procs[p].pc = "Do"
    /\ err => status = 0 /\ ~decodable
    /\ ~err => status \in WatchStatuses /\ (decodable => status = 200)
    /\ procs' = [procs EXCEPT ![p] =
          [@ EXCEPT !.pc = IF err THEN "Sleep" ELSE "Handle",
                    !.err = err, !.status = status,
                    !.decodable = decodable, !.calls = 0,
                    !.refreshed = FALSE]]
    /\ resp' = [op |-> "WatchConfig.Do", status |-> status, proc |-> p]
    /\ UNCHANGED <<now, pg, storeVars, watchVars, users, tokenVars>>

(* As WatchConfigHandle, but the callback is invoked for every response   *)
WatchConfigHandle_AlwaysCalls(p) ==
    /\ IsWatchConfig(p) /\ procs[p].pc = "Handle"
    /\ procs' = [procs EXCEPT ![p] =
          [@ EXCEPT !.pc = CASE procs[p].status = 200 -> "NewRequest"
                            [] procs[p].status = 304 -> "NewRequest"
                            [] procs[p].status = 401 -> "RefreshToken"
                            [] OTHER -> "Sleep",
                    !.calls = @ + 1]]
    /\ resp' = [op |-> "WatchConfig.Handle", status |-> procs[p].status,
                proc |-> p]
    /\ UNCHANGED <<now, pg, storeVars, watchVars, users, tokenVars>>

(* The branches on resp.StatusCode: 200 decodes the body and on success   *)
(* invokes the callback; 304 only retries; 401 goes on to RefreshToken;   *)
(* any other status sleeps 2s                                             *)
WatchConfigHandle(p) ==
    /\ IsWatchConfig(p) /\ procs[p].pc = "Handle"
    /\ procs' = [procs EXCEPT ![p] =
          [@ EXCEPT !.pc = CASE procs[p].status = 200 -> "NewRequest"
                            [] procs[p].status = 304 -> "NewRequest"
                            [] procs[p].status = 401 -> "RefreshToken"
                            [] OTHER -> "Sleep",
                    !.calls = IF procs[p].status = 200
                                 /\ procs[p].decodable
                              THEN @ + 1 ELSE @]]
    /\ resp' = [op |-> "WatchConfig.Handle", status |-> procs[p].status,
                proc |-> p]
    /\ UNCHANGED <<now, pg, storeVars, watchVars, users, tokenVars>>

(* c.RefreshToken() in the 401 branch: an error when c.refreshToken is    *)
(* empty, the post fails, the status is not 200 or the body does not      *)
(* decode (ok false), then Sleep(5s); else c.token and c.refreshToken are *)
(* set from the response and the loop continues                           *)
RefreshToken(p, ok, access, refresh) ==
    /\ IsWatchConfig(p) /\ procs[p].pc = "RefreshToken"
    /\ procs' = [procs EXCEPT ![p] =
          IF procs[p].refreshToken # "" /\ ok
          THEN [@ EXCEPT !.pc = "NewRequest", !.token = access,
                         !.refreshToken = refresh,
                         !.refreshed = TRUE, !.access = access]
          ELSE [@ EXCEPT !.pc = "Sleep"]]
    /\ resp' = [op |-> "RefreshToken",
                status |-> IF procs[p].refreshToken # "" /\ ok
                           THEN 200 ELSE 0,
                proc |-> p]
    /\ UNCHANGED <<now, pg, storeVars, watchVars, users, tokenVars>>

(* time.Sleep(...) returns; resp.Body.Close(); the next iteration         *)
WatchConfigSleep(p) ==
    /\ IsWatchConfig(p) /\ procs[p].pc = "Sleep"
    /\ procs' = [procs EXCEPT ![p] = [@ EXCEPT !.pc = "NewRequest"]]
    /\ resp' = [op |-> "WatchConfig.Sleep", status |-> 0, proc |-> p]
    /\ UNCHANGED <<now, pg, storeVars, watchVars, users, tokenVars>>

(* ClientSpec: one WatchConfig call of the SDK against any server         *)

ClientNext ==
    \/ \E token \in ClientTokens, refreshToken \in ClientRefreshTokens,
          urlOk \in BOOLEAN : WatchConfig(token, refreshToken, urlOk)
    \/ \E p \in 1..MaxProcs : WatchConfigNewRequest(p)
    \/ \E p \in 1..MaxProcs, err \in BOOLEAN,
          status \in WatchStatuses \cup {0}, decodable \in BOOLEAN :
          WatchConfigDo(p, err, status, decodable)
    \/ \E p \in 1..MaxProcs : WatchConfigHandle(p)
    \/ \E p \in 1..MaxProcs, ok \in BOOLEAN,
          access \in IssuedAccessTokens, refresh \in IssuedRefreshTokens :
          RefreshToken(p, ok, access, refresh)
    \/ \E p \in 1..MaxProcs : WatchConfigSleep(p)

ClientSpec == Init /\ [][ClientNext]_vars

(* The goroutine is scheduled, each Sleep ends, and every request returns *)
(* because both http clients carry a positive Timeout                     *)
ClientFairSpec ==
    /\ ClientSpec
    /\ \A p \in 1..MaxProcs :
          /\ WF_vars(WatchConfigNewRequest(p))
          /\ WF_vars(\E err \in BOOLEAN, status \in WatchStatuses \cup {0},
                        decodable \in BOOLEAN :
                        WatchConfigDo(p, err, status, decodable))
          /\ WF_vars(WatchConfigHandle(p))
          /\ WF_vars(\E ok \in BOOLEAN, access \in IssuedAccessTokens,
                        refresh \in IssuedRefreshTokens :
                        RefreshToken(p, ok, access, refresh))
          /\ WF_vars(WatchConfigSleep(p))

----------------------------------------------------------------------------
(* Properties *)

Max(S) == CHOOSE x \in S : \A y \in S : y <= x
RespKey == FullKey(resp.ns, resp.group, resp.key)
Mutated == history' # history
Waiting(ws, ch) == ws[ch].outcome = "waiting"
WatchKey(ws, ch) == FullKey(ws[ch].ns, ws[ch].group, ws[ch].key)

(* C1: every successful Put on a key stores a version strictly greater    *)
(* than the version stored by the Put before it on that key, however      *)
(* close in time the two are.  The Put before it is the last UPDATE       *)
(* record of the key's history below the record this Put appended.        *)
C1_PutVersionStrictlyIncreases ==
    (resp.op = "put" /\ resp.status = 201) =>
        LET hs == history[RespKey]
            earlier == {i \in 1..(Len(hs) - 1) : hs[i].OpType = "UPDATE"}
        IN  earlier # {} => data[RespKey].Version > hs[Max(earlier)].Version

(* C2: a Rollback to a version the key's history holds leaves the stored  *)
(* Config with that record's value and a version strictly greater than    *)
(* the one it had, and appends exactly one ROLLBACK record carrying the   *)
(* new version and the restored value.                                    *)
C2_RollbackRestoresWithNewVersion ==
    [][(resp'.op = "rollback" /\ resp'.status = 200 /\ Mutated) =>
        LET fk == FullKey(resp'.ns, resp'.group, resp'.key)
            hs == history[fk]
            new == history'[fk][Len(hs) + 1]
        IN  /\ \E i \in 1..Len(hs) : /\ hs[i].Version = resp'.version
                                     /\ data'[fk].Value = hs[i].Value
            /\ fk \in DOMAIN data => data'[fk].Version > data[fk].Version
            /\ Len(history'[fk]) = Len(hs) + 1
            /\ SubSeq(history'[fk], 1, Len(hs)) = hs
            /\ new.OpType = "ROLLBACK"
            /\ new.Version = data'[fk].Version
            /\ new.Value = data'[fk].Value]_vars

C5_AdminAlwaysExists == \E u \in DOMAIN users : IsAdmin(users, u)

RECURSIVE SumSeq(_)
SumSeq(q) == IF q = <<>> THEN 0 ELSE Head(q) + SumSeq(Tail(q))

(* C6: in every interval of one window length at most RateLimit requests  *)
(* with the same token pass the rate-limit step (checked for the interval *)
(* that ends now, for the access token).                                  *)
C6_SlidingWindowLimit == SumSeq(recent) <= RateLimit

(* C7: a request whose token has an unexpired blacklist entry is answered *)
(* 401 and does not reach the downstream handler.                         *)
C7_BlacklistedNeverServed ==
    (/\ resp.op = "auth" /\ Len(resp.header) = 2
     /\ resp.header[2] \in DOMAIN tokenBlacklist
     /\ ~(now > tokenBlacklist[resp.header[2]]))
    => resp.status = 401 /\ ~resp.handler

(* C8: the downstream handler runs only if every check passed, in order:  *)
(* a token was extracted, it is not blacklisted, it is within its limit,  *)
(* it is validly signed, unexpired and of kind access; the username is    *)
(* then the token's.  On the first failing check no later check runs.     *)
C8_HandlerOnlyAfterAllChecks ==
    resp.op = "auth" =>
        /\ resp.handler =>
             /\ Len(resp.header) = 2
             /\ resp.ran = <<"header", "blacklist", "ratelimit", "increment",
                             "parse", "kind">>
             /\ resp.header[2].Sig = "ok"
             /\ now < resp.header[2].ExpiresAt
             /\ resp.header[2].TokenType = "access"
             /\ resp.username = resp.header[2].Username
             /\ resp.status = 200
        /\ resp.status # 200 => ~resp.next

(* C9: after a successful Put, Get of the same key returns the value, the *)
(* declared type and the version that were written.                       *)
C9_GetAfterPut ==
    (resp.op = "put" /\ resp.status = 201) =>
        LET got == Get(data, resp.ns, resp.group, resp.key)
        IN  /\ got # ErrNotFound
            /\ got.Value = resp.reqValue
            /\ got.Type = IF resp.reqType = "" THEN "text" ELSE resp.reqType
            /\ got.Version = resp.body.Version
            /\ got.Version = now

C9_Witness ==
    /\ resp.op = "put" /\ resp.status = 201 /\ resp.reqType = "json"
    /\ Len(history[RespKey]) >= 2
    /\ Get(data, resp.ns, resp.group, resp.key).Value = "y"

(* C10: after Delete, Get on the key returns NotFound and List of its     *)
(* namespace and group does not contain it; Delete of an absent key       *)
(* answers without error and leaves the stored Configs as they were.      *)
C10_DeleteThenGetAndList ==
    [][(resp'.op = "delete" /\ Mutated) =>
        /\ resp'.status = 204
        /\ Get(data', resp'.ns, resp'.group, resp'.key) = ErrNotFound
        /\ \A c \in List(data', resp'.ns, resp'.group) : c.Key # resp'.key
        /\ Get(data, resp'.ns, resp'.group, resp'.key) = ErrNotFound
              => data' = data
        /\ \A k \in DOMAIN data \ {FullKey(resp'.ns, resp'.group, resp'.key)} :
              k \in DOMAIN data' /\ data'[k] = data[k]]_vars

C10_Witness ==
    /\ resp.op = "delete" /\ resp.status = 204
    /\ \E i \in 1..Len(history[RespKey]) : history[RespKey][i].OpType = "UPDATE"
    /\ RespKey \notin DOMAIN data
    /\ data # <<>>

(* C11: a Rollback to a version that no history record of the key carries *)
(* answers NotFound and changes nothing: the stored Configs, the          *)
(* histories and the subscriber lists are as before and no watch channel  *)
(* receives anything.                                                     *)
C11_RollbackAbsentVersionNoMutation ==
    [][(/\ resp'.op = "rollback"
        /\ LET fk == FullKey(resp'.ns, resp'.group, resp'.key)
           IN  \/ fk \notin DOMAIN history
               \/ \A i \in 1..Len(history[fk]) :
                     history[fk][i].Version # resp'.version)
       => /\ resp'.status = 404
          /\ UNCHANGED <<data, history, subscribers, watches>>]_vars

C11_Witness ==
    /\ resp.op = "rollback" /\ resp.status = 404
    /\ RespKey \in DOMAIN history /\ Len(history[RespKey]) >= 2
    /\ RespKey \in DOMAIN data
    /\ \E ch \in Registered(subscribers, RespKey) :
          Waiting(watches, ch) /\ watches[ch].buf = <<>>

HasConfigs(d, namespace) == \E x \in DOMAIN d : d[x].Namespace = namespace

(* C12: the default namespace "public" is in the namespace set in every   *)
(* reachable state, and a DeleteNamespace on it fails whether or not it   *)
(* holds Configs.                                                         *)
C12_DefaultNamespaceAlwaysExists ==
    /\ "public" \in namespaces
    /\ (resp.op = "deleteNamespace" /\ resp.ns = "public")
          => resp.status = 500

C12_Witness ==
    /\ resp.op = "deleteNamespace" /\ resp.ns = "public"
    /\ resp.status = 500
    /\ ~HasConfigs(data, "public")
    /\ FullKey("public", "g", "k") \in DOMAIN history

(* C13: DeleteNamespace(ns) fails and leaves the namespace set unchanged  *)
(* when a stored Config has namespace ns; it succeeds and removes ns when *)
(* ns is not the default namespace and no stored Config has namespace ns. *)
C13_DeleteNamespaceRules ==
    [][resp'.op = "deleteNamespace" =>
        /\ HasConfigs(data, resp'.ns) =>
              resp'.status = 500 /\ namespaces' = namespaces
        /\ (~HasConfigs(data, resp'.ns) /\ resp'.ns # "public") =>
              /\ resp'.status = 204
              /\ namespaces' = namespaces \ {resp'.ns}
              /\ data' = data]_vars

C13_Witness ==
    /\ resp.op = "deleteNamespace" /\ resp.ns = "dev" /\ resp.status = 204
    /\ "dev" \notin namespaces
    /\ FullKey("dev", "g", "k") \in DOMAIN history
    /\ Len(history[FullKey("dev", "g", "k")]) >= 2

(* C14: a delete-user request for an admin user is answered Forbidden,    *)
(* with the user set unchanged, when that user is the only admin, and     *)
(* succeeds and removes the user when at least two admins exist.          *)
C14_DeleteLastAdminForbidden ==
    [][(/\ resp'.op = "deleteUser"
        /\ resp'.username \in DOMAIN users
        /\ users[resp'.username].Role = "admin")
       => LET admins == {u \in DOMAIN users : users[u].Role = "admin"}
          IN  /\ Cardinality(admins) = 1 =>
                    resp'.status = 403 /\ users' = users
              /\ Cardinality(admins) >= 2 =>
                    /\ resp'.status = 204
                    /\ DOMAIN users' = DOMAIN users \ {resp'.username}
                    /\ \A u \in DOMAIN users' : users'[u] = users[u]]_vars

C14_Witness ==
    /\ resp.op = "deleteUser" /\ resp.status = 204 /\ resp.role = "admin"
    /\ resp.username \notin DOMAIN users
    /\ \E u \in DOMAIN users : users[u].Role = "admin"

(* C15: a request the auth middleware rejects for exceeding the rate      *)
(* limit leaves the token's usage record as it was, so no count ever      *)
(* passes the limit; and the first request that reaches the rate-limit    *)
(* step after the token's window has expired is admitted and starts a new *)
(* window whose count is 1.                                               *)
C15_RejectedNotCountedAndWindowResets ==
    [][(resp'.op = "auth" /\ Len(resp'.header) = 2) =>
        LET tok == resp'.header[2]
        IN  /\ resp'.status = 429 => tokenUsage' = tokenUsage
            /\ \A k \in DOMAIN tokenUsage' : tokenUsage'[k].Count <= RateLimit
            /\ (/\ Ran(resp', "ratelimit")
                /\ tok \in DOMAIN tokenUsage
                /\ now > tokenUsage[tok].ExpiresAt)
               => /\ resp'.status # 429
                  /\ tokenUsage'[tok].Count = 1
                  /\ tokenUsage'[tok].ExpiresAt = now + Window]_vars

C15_Witness ==
    /\ resp.op = "auth" /\ resp.status = 429
    /\ resp.header[2] = IssuedTokens.access
    /\ tokenUsage[resp.header[2]].Count = RateLimit
    /\ ~(now > tokenUsage[resp.header[2]].ExpiresAt)

(* the state the second half of C15 starts from: a full, expired window *)
C15_WindowExpired ==
    \E tok \in DOMAIN tokenUsage :
        /\ tokenUsage[tok].Count = RateLimit
        /\ now > tokenUsage[tok].ExpiresAt

(* C16: Refresh issues a new access and refresh token pair only when the  *)
(* presented token is validly signed, unexpired and of kind refresh; a    *)
(* valid access token presented to Refresh is answered 401 and no token   *)
(* is issued.                                                             *)
C16_RefreshOnlyWithRefreshToken ==
    [][resp'.op = "refresh" =>
        /\ resp'.status = 200 =>
              /\ Len(resp'.req) = 1
              /\ resp'.req[1].Sig = "ok"
              /\ now < resp'.req[1].ExpiresAt
              /\ resp'.req[1].TokenType = "refresh"
              /\ Cardinality(resp'.body) = 2
              /\ {t.TokenType : t \in resp'.body} = {"access", "refresh"}
              /\ \A t \in resp'.body : t.Username = resp'.req[1].Username
              /\ issued' = issued \cup resp'.body
        /\ resp'.status # 200 => resp'.body = {} /\ issued' = issued
        /\ (/\ Len(resp'.req) = 1
            /\ resp'.req[1].TokenType = "access")
           => resp'.status = 401]_vars

C16_Witness ==
    /\ resp.op = "refresh" /\ resp.status = 401
    /\ Len(resp.req) = 1
    /\ resp.req[1] \in issued
    /\ resp.req[1].TokenType = "access"
    /\ now < resp.req[1].ExpiresAt

(* an expired refresh token was presented *)
C16_ExpiredRefreshPresented ==
    /\ resp.op = "refresh" /\ Len(resp.req) = 1
    /\ resp.req[1] \in issued
    /\ resp.req[1].TokenType = "refresh"
    /\ ~(now < resp.req[1].ExpiresAt)

(* C17: Refresh rejects a refresh token that has an unexpired blacklist   *)
(* entry and issues nothing for it, while a valid refresh token that is   *)
(* not blacklisted is accepted, also after it was used for a rotation.    *)
C17_RefreshHonoursBlacklist ==
    (resp.op = "refresh" /\ Len(resp.req) = 1) =>
        LET tok == resp.req[1]
            listed == /\ tok \in DOMAIN tokenBlacklist
                      /\ ~(now > tokenBlacklist[tok])
        IN  /\ listed => resp.status # 200 /\ resp.body = {}
            /\ (/\ ~listed /\ tok.Sig = "ok" /\ now < tok.ExpiresAt
                /\ tok.TokenType = "refresh")
               => resp.status = 200

(* C18: Login issues tokens only if the user exists, the digest of the    *)
(* presented password equals the stored digest and the account is active; *)
(* a login that fails one of the three is answered 401 and issues no      *)
(* token.  A successful login issues exactly one access and one refresh   *)
(* token, both carrying the username.                                     *)
C18_LoginChecksAndIssuesPair ==
    [][(resp'.op = "login" /\ resp'.username # "" /\ resp'.password # "") =>
        LET u == resp'.username
            exists == u \in DOMAIN users
            digestOk == exists /\
                        users[u].Password = MD5Encrypt(resp'.password)
            active == exists /\ users[u].Status = "active"
        IN  /\ (exists /\ digestOk /\ active) =>
                  /\ resp'.status = 200
                  /\ Cardinality(resp'.body) = 2
                  /\ {t.TokenType : t \in resp'.body} = {"access", "refresh"}
                  /\ \A t \in resp'.body : t.Username = u /\ t.Sig = "ok"
                  /\ issued' = issued \cup resp'.body
            /\ ~(exists /\ digestOk /\ active) =>
                  /\ resp'.status = 401
                  /\ resp'.body = {}
                  /\ issued' = issued]_vars

C18_Witness ==
    /\ resp.op = "login" /\ resp.status = 401
    /\ resp.username \in DOMAIN users
    /\ users[resp.username].Password = MD5Encrypt(resp.password)
    /\ users[resp.username].Status = "inactive"
    /\ issued # {}

(* C19: a Delete of a key hands every subscriber registered on the key a  *)
(* sentinel Config with version -1 and an empty value, and nothing a Put  *)
(* or a Rollback hands to a watch channel has version -1.                 *)
C19_DeleteSentinelDistinct ==
    [][/\ (resp'.op = "delete" /\ resp'.status = 204) =>
            \A ch \in Registered(subscribers,
                                 FullKey(resp'.ns, resp'.group, resp'.key)) :
                /\ Len(watches'[ch].buf) = 1
                /\ watches'[ch].buf[1].Version = -1
                /\ watches'[ch].buf[1].Value = ""
       /\ (resp'.op \in {"put", "rollback"}) =>
            \A ch \in DOMAIN watches :
                watches'[ch].buf # watches[ch].buf =>
                    /\ Len(watches'[ch].buf) = 1
                    /\ watches'[ch].buf[1].Version # -1]_vars

C19_Witness ==
    /\ resp.op = "delete" /\ resp.status = 204
    /\ \E i \in 1..Len(history[RespKey]) : history[RespKey][i].OpType = "UPDATE"
    /\ \E ch \in DOMAIN watches :
          /\ WatchKey(watches, ch) = RespKey
          /\ Waiting(watches, ch)
          /\ watches[ch].buf = <<resp.body>>
          /\ resp.body.Version = -1

(* C20: ListHistory returns the key's history records ordered by version  *)
(* descending, the newest record first, whatever mutations the key went   *)
(* through.                                                               *)
C20_ListHistoryNewestFirst ==
    resp.op = "listHistory" =>
        /\ \A i, j \in 1..Len(resp.body) :
              i < j => resp.body[i].Version >= resp.body[j].Version
        /\ RespKey \in DOMAIN history =>
              /\ Len(resp.body) = Len(history[RespKey])
              /\ \A i \in 1..Len(resp.body) :
                    resp.body[i] = history[RespKey][Len(resp.body) + 1 - i]

IsPrefix(s, t) == Len(s) <= Len(t) /\ SubSeq(t, 1, Len(s)) = s
Succeeded(r) ==
    \/ r.op = "put" /\ r.status = 201
    \/ r.op = "delete" /\ r.status = 204
    \/ r.op = "rollback" /\ r.status = 200

(* C21: history is append-only with one record per mutation.  A           *)
(* successful Put, Delete or Rollback adds exactly one record to its      *)
(* key's history, nothing else adds one, the records a key had before a   *)
(* step are still there unchanged after it, and ListHistory returns all   *)
(* of them.                                                               *)
C21_HistoryAppendOnly ==
    [][/\ \A fk \in DOMAIN history :
            fk \in DOMAIN history' /\ IsPrefix(history[fk], history'[fk])
       /\ IF Succeeded(resp')
          THEN LET fk == FullKey(resp'.ns, resp'.group, resp'.key)
                   old == IF fk \in DOMAIN history THEN history[fk] ELSE <<>>
               IN  /\ Len(history'[fk]) = Len(old) + 1
                   /\ \A k \in DOMAIN history' \ {fk} :
                         k \in DOMAIN history /\ history'[k] = history[k]
          ELSE history' = history
       /\ resp'.op = "listHistory" =>
            LET fk == FullKey(resp'.ns, resp'.group, resp'.key)
            IN  Len(resp'.body) =
                   IF fk \in DOMAIN history THEN Len(history[fk]) ELSE 0]_vars

C21_Witness ==
    /\ resp.op = "listHistory" /\ Len(resp.body) = 3
    /\ {resp.body[i].OpType : i \in 1..3} = {"UPDATE", "DELETE", "ROLLBACK"}

(* C22: a Put on a key the store does not hold appends a history record   *)
(* with operation CREATE, a Put on a key it holds one with UPDATE.        *)
C22_PutRecordsCreateOrUpdate ==
    [][(resp'.op = "put" /\ resp'.status = 201) =>
        LET fk == FullKey(resp'.ns, resp'.group, resp'.key)
            rec == history'[fk][Len(history'[fk])]
        IN  rec.OpType = IF fk \in DOMAIN data THEN "UPDATE" ELSE "CREATE"]_vars

(* C23: the in-memory store and the PostgresStore answer every call of a  *)
(* sequence of CreateNamespace, DeleteNamespace, Put, Get, Delete, List   *)
(* and token-state calls alike: the same success or failure and the same  *)
(* Config contents (value, type, version).                                *)
C23_StoresAgree ==
    resp.op \in {"store.Put", "store.Get", "store.Delete", "store.List",
                 "store.CreateNamespace", "store.DeleteNamespace",
                 "store.AddTokenToBlacklist", "store.IsTokenBlacklisted",
                 "store.IncrementTokenUsage", "store.CheckTokenRateLimit"}
        => resp.mem = resp.pg

(* C24: when a watch call is cancelled by its caller, its channel is      *)
(* removed from the key's subscriber list, no other subscriber of the key *)
(* is notified or removed, and no Config or history record changes.       *)
C24_CancelReleasesSlot ==
    [][(resp'.op = "watch" /\ watches'[resp'.ch].outcome = "cancelled") =>
        LET ch == resp'.ch
            fk == WatchKey(watches, ch)
        IN  /\ ch \notin Registered(subscribers', fk)
            /\ \A c \in Registered(subscribers, fk) \ {ch} :
                  /\ c \in Registered(subscribers', fk)
                  /\ watches'[c] = watches[c]
            /\ data' = data /\ history' = history]_vars

(* C25: a watch call answers not-modified only when no Config was handed  *)
(* to it and the full timeout window since its Subscribe has elapsed,     *)
(* never earlier; once the window has elapsed with nothing handed to it   *)
(* the timeout answer is open to it; and each watch call ends once, with  *)
(* exactly one of config, timeout and cancellation.                       *)
C25_TimeoutOnlyAfterWindow ==
    [][/\ resp'.op = "subscribe" =>
            /\ watches'[resp'.ch].deadline = now + WatchTimeout
            /\ watches'[resp'.ch].outcome = "waiting"
       /\ \A ch \in DOMAIN watches :
            /\ (Waiting(watches, ch) /\ watches'[ch].outcome = "timeout") =>
                  /\ now >= watches[ch].deadline
                  /\ watches[ch].buf = <<>>
                  /\ resp' = [op |-> "watch", status |-> 304, ch |-> ch]
            /\ Waiting(watches, ch) =>
                  /\ watches'[ch].outcome \in
                        {"waiting", "config", "timeout", "cancelled"}
                  /\ watches'[ch].deadline \in {0, watches[ch].deadline}
            /\ ~Waiting(watches, ch) =>
                  watches'[ch].outcome = watches[ch].outcome
            /\ (/\ Waiting(watches, ch) /\ watches[ch].buf = <<>>
                /\ now >= watches[ch].deadline) =>
                  ENABLED watchTimeout(ch)]_vars

C25_Witness ==
    /\ resp.op = "watch" /\ resp.status = 304
    /\ watches[resp.ch].outcome = "timeout"
    /\ watches[resp.ch].buf = <<>>
    /\ WatchKey(watches, resp.ch) \in DOMAIN subscribers
    /\ \E fk \in DOMAIN history : fk # WatchKey(watches, resp.ch)

(* C26: once the expiry of a blacklist entry has passed, a lookup of its  *)
(* token answers "not blacklisted" and leaves the table without the       *)
(* entry; neither a lookup nor the sweep removes or changes an entry      *)
(* whose expiry has not passed; and an expired entry does not stay in the *)
(* table for ever.                                                        *)
Expired(bl, token, t) == token \in DOMAIN bl /\ t > bl[token]

C26_ExpiredEntryGoes ==
    /\ [][/\ (/\ resp'.op = "store.IsTokenBlacklisted"
              /\ Expired(tokenBlacklist, resp'.token, now)) =>
                /\ resp'.mem = FALSE
                /\ resp'.token \notin DOMAIN tokenBlacklist'
          /\ resp'.op \in {"store.IsTokenBlacklisted", "cleanup"} =>
                \A tok \in DOMAIN tokenBlacklist :
                   ~Expired(tokenBlacklist, tok, now) =>
                      /\ tok \in DOMAIN tokenBlacklist'
                      /\ tokenBlacklist'[tok] = tokenBlacklist[tok]]_vars
    /\ \A tok \in SweepTokens :
          Expired(tokenBlacklist, tok, now)
             ~> ~Expired(tokenBlacklist, tok, now)

C26_Witness ==
    /\ resp.op = "cleanup"
    /\ IssuedTokens.access \notin DOMAIN tokenBlacklist
    /\ IssuedTokens.refresh \in DOMAIN tokenBlacklist
    /\ ~Expired(tokenBlacklist, IssuedTokens.refresh, now)
    /\ IssuedTokens.access \in DOMAIN tokenUsage

(* C27: right after a run of the sweep the blacklist holds no entry whose *)
(* expiry has passed and the usage table holds no record whose window has *)
(* expired.                                                               *)
C27_SweepDeletesExpired ==
    resp.op = "cleanup" =>
        /\ \A tok \in DOMAIN tokenBlacklist :
              ~Expired(tokenBlacklist, tok, now)
        /\ \A tok \in DOMAIN tokenUsage : ~(now > tokenUsage[tok].ExpiresAt)

(* C29: a Put whose Config write succeeded and whose history append       *)
(* failed is answered 201 and leaves the store holding the new value and  *)
(* version with the history as it was; afterwards the stored Config       *)
(* changes only by another successful put or delete of the same key.      *)
C29_FailedAppendKeepsWrite ==
    [][/\ (resp'.op = "put" /\ resp'.status = 201 /\ history' = history) =>
            /\ RespKey' \in DOMAIN data'
            /\ data'[RespKey'] = resp'.body
            /\ resp'.body.Value = resp'.reqValue
            /\ resp'.body.Version = now
       /\ \A fk \in DOMAIN data :
            ~(/\ resp'.op \in {"put", "delete"}
              /\ resp'.status \in {201, 204}
              /\ RespKey' = fk) =>
               /\ fk \in DOMAIN data'
               /\ data'[fk] = data[fk]]_vars

C29_Witness ==
    /\ resp.op = "get" /\ resp.status = 200
    /\ RespKey \in DOMAIN history
    /\ LET h == history[RespKey]
       IN  /\ h[Len(h)].Version < resp.body.Version
           /\ h[Len(h)].Value # resp.body.Value
    /\ data[RespKey] = resp.body

(* C28: a call of Notify that has not returned can always take its next   *)
(* step, whatever the channels of its list hold; a send to a channel      *)
(* whose buffer is full leaves the buffer as it was and moves on; and     *)
(* every call of Notify returns.                                          *)
NotifyStep(p) == NotifySend(p) \/ NotifyDelete(p)

Notifying(p) ==
    p \in DOMAIN procs /\ procs[p].kind = "Notify" /\ procs[p].pc # "done"

C28_NotifyNeverBlocks ==
    /\ [](\A p \in 1..MaxProcs : Notifying(p) => ENABLED NotifyStep(p))
    /\ [][\A p \in DOMAIN procs :
            (procs[p].pc = "send" /\ procs'[p].i # procs[p].i) =>
               LET c == procs[p].subs[procs[p].i + 1]
               IN  /\ procs'[p].i = procs[p].i + 1
                   /\ Len(watches[c].buf) = 1 =>
                         /\ watches'[c].buf = watches[c].buf
                         /\ procs'[p].skipped = procs[p].skipped + 1
                   /\ Len(watches[c].buf) = 0 =>
                         watches'[c].buf = <<ConcConfig(procs[p].ver)>>]_vars
    /\ \A p \in 1..MaxProcs : Notifying(p) ~> ~Notifying(p)

C28_Witness ==
    \E p \in DOMAIN procs :
       /\ procs[p].kind = "Notify" /\ procs[p].pc = "done"
       /\ procs[p].skipped > 0
       /\ \E j \in 1..Len(procs[p].subs) :
             watches[procs[p].subs[j]].outcome = "cancelled"

(* C30: the Delete that ends a Notify takes a channel off the subscriber *)
(* list of its key only when a Config has been handed to it, and a       *)
(* channel that was handed a Config and is off the list is never put on  *)
(* the list again.                                                       *)
Delivered(ws, ch) == ws[ch].buf # <<>> \/ ws[ch].outcome = "config"

C30_NotifyAtomicWithSubscribe ==
    [][\A ch \in DOMAIN watches :
          LET fk == WatchKey(watches, ch) IN
          /\ (/\ resp'.op = "Notify.Delete"
              /\ ch \in Registered(subscribers, fk)
              /\ ch \notin Registered(subscribers', fk)) =>
                Delivered(watches', ch)
          /\ (/\ Delivered(watches, ch)
              /\ ch \notin Registered(subscribers, fk)) =>
                ch \notin Registered(subscribers', fk)]_vars

(* C31: the Store that ends a Subscribe puts the call's channel on the    *)
(* subscriber list of the key and leaves on it every channel that was     *)
(* registered before, whatever other calls of Subscribe are under way.    *)
C31_NoRegistrationLost ==
    [][resp'.op = "Subscribe.Store" =>
          /\ procs[resp'.proc].ch \in Registered(subscribers', ConcKey)
          /\ \A ch \in Registered(subscribers, ConcKey) :
                ch \in Registered(subscribers', ConcKey)]_vars

(* C32: every write a put request applies to the store leaves the key at  *)
(* a Version no lower than the one the store held before the write.       *)
C32_AppliedVersionsNeverDecrease ==
    [][(resp'.op = "put.Put" /\ ConcKey \in DOMAIN data) =>
          data'[ConcKey].Version >= data[ConcKey].Version]_vars

(* C33: the Config a watch request receives has a Version no lower than   *)
(* the one the store held for the key when its channel was registered.    *)
HeldAt(ch) ==
    LET p == CHOOSE q \in DOMAIN procs :
                procs[q].kind = "Watch" /\ procs[q].ch = ch
    IN  procs[p].held

C33_NotifiedVersionNotOlder ==
    [][(resp'.op = "watch" /\ resp'.status = 200) =>
          resp'.body.Version >= HeldAt(resp'.ch)]_vars

(* C36: the history of the key holds one record for every put request     *)
(* whose CreateHistory has returned.                                       *)
Appended(p) ==
    /\ procs[p].kind = "Put"
    /\ \E i \in 1..Len(procs[p].steps) : procs[p].steps[i] = "CreateHistory"

C36_NoHistoryRecordLost ==
    Len(LoadOr(history, ConcKey, <<>>))
        = Cardinality({p \in DOMAIN procs : Appended(p)})

(* C38: a put request calls the store's Put, then CreateHistory with a    *)
(* record of the Config's version and value, then Notify, in that order;  *)
(* a Config reaches a watcher's channel only from a request that has made *)
(* the first two calls; and a request whose Put failed changes neither    *)
(* store, history nor channels and makes no further call.                 *)
PutOrder == <<"Put", "CreateHistory", "Notify">>

C34_LastAdminCheckAtomic == adminCount(users) >= 1

(* C35: inside one window no more than RateLimit requests with the same   *)
(* token pass the rate-limit check, and once the requests have finished   *)
(* the usage count of the token is the number of requests that passed.    *)
Admitted ==
    {p \in DOMAIN procs : procs[p].kind = "auth" /\ procs[p].status # 429}

C35_RateLimitUnderConcurrency ==
    /\ Cardinality(Admitted) <= RateLimit
    /\ (\A p \in DOMAIN procs : procs[p].pc = "done") =>
          LoadOr(tokenUsage, IssuedTokens.access, [Count |-> 0]).Count
             = Cardinality(Admitted)

(* C37: the namespace of every stored Config is in the namespace set.     *)
C37_ConfigNamespaceExists ==
    \A fk \in DOMAIN data : data[fk].Namespace \in namespaces

(* C39: an operation on one (namespace, group, key) triple leaves the     *)
(* Config, the history and the subscriber list of every other triple as   *)
(* they were and hands nothing to the channels registered for another     *)
(* triple.  C39_SeparatorFreeIsolated is the same for every pair of       *)
(* triples of which at least one has no "/" in its names.                 *)
SepTriples ==
    {[ns |-> ns, group |-> g, key |-> "k"] :
        ns \in SepNamespaces, g \in SepGroups}

SeparatorFree(T) == ~HasSeparator(T.ns) /\ ~HasSeparator(T.group)

TripleState(d, h, s, T) ==
    LET fk == FullKey(T.ns, T.group, T.key)
    IN  [config |-> IF fk \in DOMAIN d THEN <<d[fk]>> ELSE <<>>,
         history |-> LoadOr(h, fk, <<>>),
         subs |-> LoadOr(s, fk, <<>>)]

TripleOf(r) == [ns |-> r.ns, group |-> r.group, key |-> r.key]

(* the triple the step was called with *)
OpTriple ==
    IF resp'.op \in {"subscribe", "watch"}
    THEN TripleOf(watches'[resp'.ch])
    ELSE TripleOf(resp')

Untouched(T) ==
    /\ TripleState(data', history', subscribers', T)
          = TripleState(data, history, subscribers, T)
    /\ \A ch \in DOMAIN watches :
          TripleOf(watches[ch]) = T => watches'[ch].buf = watches[ch].buf

InFlight(p) == IsWatchConfig(p) /\ procs[p].pc = "Do"
Outcome(p) ==
    /\ IsWatchConfig(p)
    /\ procs[p].pc = "Handle" \/ (procs[p].pc = "Sleep" /\ procs[p].err)
WatchConfigReturns ==
    resp'.op = "WatchConfig" =>
        /\ Len(procs') = 1
        /\ procs'[1].pc = "NewRequest"
        /\ procs'[1].status = 0 /\ procs'[1].calls = 0
CallbackOncePer200 ==
    \A p \in DOMAIN procs :
        IsWatchConfig(p) =>
            procs[p].calls = IF /\ procs[p].pc # "Handle"
                                /\ procs[p].status = 200
                                /\ procs[p].decodable
                             THEN 1 ELSE 0
RefreshedTokenCarried ==
    \A p \in DOMAIN procs :
        /\ IsWatchConfig(p)
        /\ procs[p].refreshed
        /\ resp'.op = "WatchConfig.NewRequest" /\ resp'.proc = p
        => /\ InFlight(p)'
           /\ procs'[p].sent = Bearer(procs[p].access)

(* C40: WatchConfig returns at once with its goroutine started; after     *)
(* every outcome of a watch request (a transport error or a response of   *)
(* any status, with RefreshToken succeeding or failing after a 401)       *)
(* another watch request is eventually issued; the callback is invoked    *)
(* once for a 200 response with a decodable body and never for another    *)
(* outcome; and the request that follows a 401 and a successful           *)
(* RefreshToken carries the access token that RefreshToken received.      *)
C40_WatchConfigPollsForever ==
    /\ [][WatchConfigReturns]_vars
    /\ [](CallbackOncePer200)
    /\ [][RefreshedTokenCarried]_vars
    /\ \A p \in 1..MaxProcs : Outcome(p) ~> InFlight(p)

C40_Witness ==
    /\ InFlight(1)
    /\ procs[1].refreshed
    /\ procs[1].sent = Bearer("t2")
    /\ procs[1].status = 401

====
